---- MODULE Spec2Model ----
(***************************************************************************)
(* SniperX V3: the token watch engine (Monitoring.py), the scanner loop    *)
(* (SniperX V2, second half of src/Monitoring.py) and the lock file        *)
(* monitoring_active.lock that arbitrates between them.                    *)
(*                                                                         *)
(* Processes are interleaved at the granularity of one file-system call    *)
(* on the lock file; inside one monitoring process the asyncio tasks are   *)
(* interleaved at their await points.                                      *)
(***************************************************************************)
EXTENDS Integers, Sequences, FiniteSets, TLC

----------------------------------------------------------------------------
(* Bounds of the model *)

\* number of times the wall clock is advanced in one behaviour
MaxAdvances == 2

\* number of times the environment rewrites token_risk_analysis.csv
MaxQueueEdits == 2

\* number of rows the environment puts into token_risk_analysis.csv
MaxQueue == 1

\* time.time() when the first process is started
BootTime == 10

\* number of websocket frames delivered to one process
MaxFrames == 1

\* number of trades of one uninterrupted stream of the feed
MaxStream == 102

\* number of Monitoring.py processes that can be dead by a crash at one time
MaxCrashed == 1

\* pids of the Monitoring.py processes that can be started
Procs == {1, 2}

\* pids of the scripts that import process_lock.py
Clients == {11, 12, 13}

\* mint addresses that occur in the queue
Addrs == {"A", "B"}

\* Price_Impact_Cluster_Sell_Percent values that occur in the queue
Impacts == {10, 65}

\* solAmount values of the trades the feed delivers
SolAmounts == {79, 100, 101, 110}

\* the trades the feed delivers: one without tokens, the others for one token
TradeSizes == {[amount |-> 0, solAmount |-> 100]}
                \cup {[amount |-> 1, solAmount |-> s] : s \in SolAmounts}

\* durations by which the wall clock advances, for the lock protocol
LockDelays == {300}

\* durations by which the wall clock advances, for the epoch timers
EpochDelays == {1, 180}

----------------------------------------------------------------------------
(* Program constants *)

g_last_known_sol_price == 155
BUFFER_MAXLEN == 100
NO_BUY_SIGNAL_TIMEOUT_SECONDS == 180
STAGNATION_TIMEOUT_SECONDS == 180
DEXSCREENER_PRICE_UPDATE_INTERVAL_SECONDS == 1
RECONNECT_DELAY_SECONDS == 5
PRICE_IMPACT_THRESHOLD_MONITOR == 65
LOCK_MAX_AGE_SECONDS == 300

\* thresholds in percent: x * 1.01 is compared as 100 * p against 101 * x
BUY_SIGNAL_PRICE_INCREASE_PERCENT == 101
TAKE_PROFIT_THRESHOLD_PERCENT == 110
STOP_LOSS_THRESHOLD_PERCENT == 95
STAGNATION_PRICE_THRESHOLD_PERCENT == 80

\* Python None for a price, a timestamp, a pid and a mint address
NoPrice == -1
NoTime == -1
NoPid == 0
NoMint == "none"

\* the lock file does not exist
NoLock == [pid |-> NoPid, mtime |-> NoTime]

\* process.lock does not exist; a file that exists and is empty reads as ""
NoFile == -1
EmptyFile == 0

TaskNames == {"listener", "trader", "checker"}

\* g_current_tasks == []
NoTasks == [t \in TaskNames |-> "none"]

\* a task that has ended: by cancellation, with RestartRequired, with
\* SystemExit, with another exception, by returning, or with a
\* TokenProcessingComplete that was constructed and raised
DoneStates == {"cancelled", "restart", "sysexit", "error", "returned", "complete"}

----------------------------------------------------------------------------
VARIABLES
    now,                        \* time.time()
    advances,                   \* clock advances so far
    lock,                       \* monitoring_active.lock: pid written, mtime
    queue,                      \* rows of token_risk_analysis.csv
    queueEdits,                 \* environment rewrites of the queue so far
    csv_modified,               \* a change of the queue file the CSV watchdog has not seen
    trades_csv,                 \* rows of trades.csv
    scriptExists,               \* "SniperX V2.py" is present next to Monitoring.py
    scannersStarted,            \* scanners spawned by restart_sniperx_v2
    mpc,                        \* position of each Monitoring.py process in main
    rpc,                        \* position inside TokenProcessingComplete.__init__
    lock_created_by_this_instance,
    current_pid_in_lock,        \* pid read back before a release
    loaded_mint_address,
    g_current_mint_address,
    g_current_tasks,            \* state of the three tasks of the epoch
    current_task_mint_address,  \* the address the tasks of the epoch were started for
    g_latest_trade_data,        \* deque(maxlen=100) of trades
    framesSeen,                 \* frames delivered so far
    g_last_dex_price_fetch_time,
    g_baseline_price_usd,
    g_trade_status,
    g_buy_price_usd,
    g_token_start_time,
    g_buy_signal_detected,
    g_stagnation_timer_start,
    current_time,               \* local of the tick in progress
    usd_price_per_token,        \* local of the last tick
    spc,                        \* position of the scanner (SniperX V2)
    monitoring_process,         \* pid of the Monitoring.py the scanner started
    lock_file_age,              \* the age of the lock the scanner measured last
    running_process,            \* pid of the Monitoring.py the CSV watchdog started
    sigint,                     \* pids of the Monitoring.py processes that got SIGINT
    take_profit_threshold,      \* TAKE_PROFIT_THRESHOLD_PERCENT as configured
    stop_loss_threshold,        \* STOP_LOSS_THRESHOLD_PERCENT as configured
    process_lock_file,          \* process.lock: absent, empty, or the pid written
    lock_acquired,              \* ProcessLock.lock_acquired of each client script
    cpc,                        \* position of each client script
    reconnect_at                \* when the listener's sleep before a reconnect ends

timeVars == <<now, advances>>
fileVars == <<lock, queue, queueEdits, csv_modified, trades_csv, scriptExists>>
mainVars == <<mpc, rpc, lock_created_by_this_instance, current_pid_in_lock,
              loaded_mint_address, g_current_mint_address, g_current_tasks,
              current_task_mint_address>>
epochVars == <<g_latest_trade_data, framesSeen, g_last_dex_price_fetch_time,
               g_baseline_price_usd, g_trade_status, g_buy_price_usd,
               g_token_start_time, g_buy_signal_detected,
               g_stagnation_timer_start, current_time, usd_price_per_token>>
scanVars == <<spc, monitoring_process, lock_file_age, scannersStarted, running_process>>
restVars == <<sigint, take_profit_threshold, stop_loss_threshold,
              process_lock_file, lock_acquired, cpc, reconnect_at>>

vars == <<timeVars, fileVars, mainVars, epochVars, scanVars, restVars>>

----------------------------------------------------------------------------
(* The queue file *)

Rows == [addr : Addrs, impact : Impacts]

RECURSIVE SeqsUpTo(_)
SeqsUpTo(n) ==
    IF n = 0 THEN {<<>>}
    ELSE LET shorter == SeqsUpTo(n - 1)
         IN  shorter \cup {Append(s, r) : s \in {x \in shorter : Len(x) = n - 1}, r \in Rows}

Queues == SeqsUpTo(MaxQueue)

\* impact cells that are not numbers: an empty cell, a cell with text, and
\* the None that csv.DictReader gives for a cell the row is too short for
Cells == [empty |-> -1, text |-> -2, none |-> -3]

\* rows of any shape, with their Name cell
CsvRows == [addr : Addrs \cup {NoMint}, name : {"", "N"},
            impact : Impacts \cup {Cells.empty, Cells.text, Cells.none}]

\* a row that load_token_from_csv accepts: address present, impact below 65;
\* an empty impact counts as 66, and a row whose impact float() rejects is
\* skipped
Eligible(row) ==
    /\ row.addr # NoMint
    /\ row.impact # Cells.text
    /\ (IF row.impact = Cells.empty THEN PRICE_IMPACT_THRESHOLD_MONITOR + 1 ELSE row.impact)
            < PRICE_IMPACT_THRESHOLD_MONITOR

\* the index of the row load_token_from_csv returns, 0 for (None, None): the
\* last eligible row, unless some row has None for its impact, on which
\* .strip() raises AttributeError and `except Exception` returns (None, None)
LoadedRow(q) ==
    LET idx == {i \in 1..Len(q) : Eligible(q[i])}
    IN  IF idx = {} \/ \E i \in 1..Len(q) : q[i].impact = Cells.none THEN 0
        ELSE CHOOSE i \in idx : \A j \in idx : j <= i

\* load_token_from_csv: the address of the last eligible row, or None
load_token_from_csv(q) ==
    IF LoadedRow(q) = 0 THEN NoMint ELSE q[LoadedRow(q)].addr

\* load_token_from_csv: the name it returns with the address, which is the
\* address if the Name cell is empty
loaded_token_name(q) ==
    IF LoadedRow(q) = 0 THEN NoMint
    ELSE IF q[LoadedRow(q)].name # "" THEN q[LoadedRow(q)].name ELSE q[LoadedRow(q)].addr

\* remove_token_from_csv: every row whose Address is the mint is dropped
remove_token_from_csv(mint, q) ==
    SelectSeq(q, LAMBDA row : row.addr # mint)

----------------------------------------------------------------------------
(* Helpers on the task group of one process *)

HasTasks(p) == g_current_tasks[p] # NoTasks

Done(p, t) == g_current_tasks[p][t] \in DoneStates

\* gather as if it returned when the first task has ended
AnyDone(p) == \E t \in TaskNames : Done(p, t)

AllDone(p) == \A t \in TaskNames : Done(p, t)

\* the task group as if cancel() were called on no task
CancelNone(p, self) == g_current_tasks[p]

\* the task group as if cancel() were called on the feed only
CancelOnlyFeed(p, self) ==
    [t \in TaskNames |->
        IF t = "listener" /\ t # self /\ g_current_tasks[p][t] \in {"run", "oracle"}
        THEN "cancel" ELSE g_current_tasks[p][t]]

\* task.cancel() on every task of the group that is not done, except `self`
CancelOthers(p, self) ==
    [t \in TaskNames |->
        IF t # self /\ ~Done(p, t) /\ g_current_tasks[p][t] # "none"
        THEN "cancel" ELSE g_current_tasks[p][t]]

\* the pid the next Monitoring.py process gets
NextPid == CHOOSE p \in Procs : mpc[p] = "off" /\ \A q \in Procs : mpc[q] = "off" => p <= q

\* the process executes Python code: it was started and has not ended
Alive(p) == mpc[p] \notin {"off", "exited", "crashed"}

\* the single thread of p is not inside TokenProcessingComplete.__init__
Free(p) == Alive(p) /\ rpc[p] = "none"

\* the main coroutine awaits the epoch's tasks: an epoch is running
EpochRunning(p) ==
    /\ mpc[p] = "gather"
    /\ \E t \in TaskNames : ~Done(p, t)

----------------------------------------------------------------------------
(* Initial state: nothing runs yet, no lock file, the queue as given; a    *)
(* queue that has rows was written and the CSV watchdog has not seen it    *)

\* the state at boot with the thresholds tp and sl, in percent
InitConfigured(q, tp, sl) ==
    /\ now = BootTime
    /\ advances = 0
    /\ lock = NoLock
    /\ queue = q
    /\ queueEdits = 0
    /\ csv_modified = (q # <<>>)
    /\ trades_csv = <<>>
    /\ scriptExists \in BOOLEAN
    /\ scannersStarted = 0
    /\ mpc = [p \in Procs |-> "off"]
    /\ rpc = [p \in Procs |-> "none"]
    /\ lock_created_by_this_instance = [p \in Procs |-> FALSE]
    /\ current_pid_in_lock = [p \in Procs |-> NoPid]
    /\ loaded_mint_address = [p \in Procs |-> NoMint]
    /\ g_current_mint_address = [p \in Procs |-> NoMint]
    /\ g_current_tasks = [p \in Procs |-> NoTasks]
    /\ current_task_mint_address = [p \in Procs |-> NoMint]
    /\ g_latest_trade_data = [p \in Procs |-> <<>>]
    /\ framesSeen = [p \in Procs |-> 0]
    /\ g_last_dex_price_fetch_time = [p \in Procs |-> 0]
    /\ g_baseline_price_usd = [p \in Procs |-> NoPrice]
    /\ g_trade_status = [p \in Procs |-> "monitoring"]
    /\ g_buy_price_usd = [p \in Procs |-> NoPrice]
    /\ g_token_start_time = [p \in Procs |-> NoTime]
    /\ g_buy_signal_detected = [p \in Procs |-> FALSE]
    /\ g_stagnation_timer_start = [p \in Procs |-> NoTime]
    /\ current_time = [p \in Procs |-> NoTime]
    /\ usd_price_per_token = [p \in Procs |-> NoPrice]
    /\ spc = "init"
    /\ monitoring_process = NoPid
    /\ lock_file_age = NoTime
    /\ running_process = NoPid
    /\ sigint = {}
    /\ take_profit_threshold = tp
    /\ stop_loss_threshold = sl
    /\ process_lock_file = NoFile
    /\ lock_acquired = [c \in Clients |-> FALSE]
    /\ cpc = [c \in Clients |-> "idle"]
    /\ reconnect_at = [p \in Procs |-> NoTime]

InitWith(q) ==
    InitConfigured(q, TAKE_PROFIT_THRESHOLD_PERCENT, STOP_LOSS_THRESHOLD_PERCENT)

Init == InitWith(<<>>)

----------------------------------------------------------------------------
(* Environment: the wall clock and the producer of the queue file *)

\* the wall clock advances by d seconds
Advance(d) ==
    /\ advances < MaxAdvances
    /\ now' = now + d
    /\ advances' = advances + 1
    /\ UNCHANGED <<restVars, fileVars, mainVars, epochVars, scanVars>>

\* the risk detector rewrites token_risk_analysis.csv
QueueEdit ==
    /\ queueEdits < MaxQueueEdits
    /\ \E q \in Queues :
        /\ q # queue
        /\ queue' = q
    /\ queueEdits' = queueEdits + 1
    /\ csv_modified' = TRUE
    /\ UNCHANGED <<restVars, timeVars, lock, trades_csv, scriptExists, mainVars, epochVars, scanVars>>

\* the process has ended: its memory is gone with it
Forget(p) ==
    /\ rpc' = [rpc EXCEPT ![p] = "none"]
    /\ lock_created_by_this_instance' = [lock_created_by_this_instance EXCEPT ![p] = FALSE]
    /\ current_pid_in_lock' = [current_pid_in_lock EXCEPT ![p] = NoPid]
    /\ loaded_mint_address' = [loaded_mint_address EXCEPT ![p] = NoMint]
    /\ g_current_mint_address' = [g_current_mint_address EXCEPT ![p] = NoMint]
    /\ g_current_tasks' = [g_current_tasks EXCEPT ![p] = NoTasks]
    /\ current_task_mint_address' = [current_task_mint_address EXCEPT ![p] = NoMint]
    /\ g_latest_trade_data' = [g_latest_trade_data EXCEPT ![p] = <<>>]
    /\ framesSeen' = [framesSeen EXCEPT ![p] = 0]
    /\ g_last_dex_price_fetch_time' = [g_last_dex_price_fetch_time EXCEPT ![p] = 0]
    /\ g_baseline_price_usd' = [g_baseline_price_usd EXCEPT ![p] = NoPrice]
    /\ g_trade_status' = [g_trade_status EXCEPT ![p] = "monitoring"]
    /\ g_buy_price_usd' = [g_buy_price_usd EXCEPT ![p] = NoPrice]
    /\ g_token_start_time' = [g_token_start_time EXCEPT ![p] = NoTime]
    /\ g_buy_signal_detected' = [g_buy_signal_detected EXCEPT ![p] = FALSE]
    /\ g_stagnation_timer_start' = [g_stagnation_timer_start EXCEPT ![p] = NoTime]
    /\ current_time' = [current_time EXCEPT ![p] = NoTime]
    /\ usd_price_per_token' = [usd_price_per_token EXCEPT ![p] = NoPrice]

\* the process is killed (SIGTERM or SIGKILL): no handler of it runs
Killed(p) ==
    /\ mpc' = [mpc EXCEPT ![p] = "crashed"]
    /\ Forget(p)

\* a Monitoring.py process dies without running its cleanup
Crash(p) ==
    /\ Alive(p)
    /\ Cardinality({q \in Procs : mpc[q] = "crashed"}) < MaxCrashed
    /\ Killed(p)
    /\ UNCHANGED <<restVars, timeVars, fileVars, scanVars>>

----------------------------------------------------------------------------
(* Monitoring.py: start-up and the lock steps of main() *)

\* every step of main leaves these alone unless it says otherwise
MainFrame(p) ==
    UNCHANGED <<restVars, timeVars, queue, queueEdits, csv_modified, trades_csv, scriptExists,
                rpc, current_task_mint_address, epochVars, scanVars>>

Goto(p, pos) == mpc' = [mpc EXCEPT ![p] = pos]

\* __main__: os.path.exists(_LOCK_FILE_PATH_MAIN)
StartupExists(p) ==
    /\ mpc[p] = "startup"
    /\ Goto(p, IF lock # NoLock THEN "startup_remove" ELSE "acquire")
    /\ UNCHANGED <<lock, lock_created_by_this_instance, current_pid_in_lock,
                   loaded_mint_address, g_current_mint_address, g_current_tasks>>
    /\ MainFrame(p)

\* the start-up as if a lock found were left in place
StartupKeepsLock(p) ==
    /\ mpc[p] = "startup_remove"
    /\ Goto(p, "acquire")
    /\ UNCHANGED <<lock, lock_created_by_this_instance, current_pid_in_lock,
                   loaded_mint_address, g_current_mint_address, g_current_tasks>>
    /\ MainFrame(p)

\* __main__: os.remove of the lock found at start-up, whatever it names
StartupRemove(p) ==
    /\ mpc[p] = "startup_remove"
    /\ lock' = NoLock
    /\ Goto(p, "acquire")
    /\ UNCHANGED <<lock_created_by_this_instance, current_pid_in_lock,
                   loaded_mint_address, g_current_mint_address, g_current_tasks>>
    /\ MainFrame(p)

\* open(LOCK_FILE_PATH, 'w'): the file is created or truncated, never refused
WriteLock(p) == [pid |-> p, mtime |-> now]

\* main: the lock file is written with this pid
Acquire(p) ==
    /\ mpc[p] = "acquire"
    /\ lock' = WriteLock(p)
    /\ lock_created_by_this_instance' = [lock_created_by_this_instance EXCEPT ![p] = TRUE]
    /\ Goto(p, "load")
    /\ UNCHANGED <<current_pid_in_lock, loaded_mint_address, g_current_mint_address,
                   g_current_tasks>>
    /\ MainFrame(p)

\* the top of the loop as if a queue without a target were no reason to idle
LoadSkipsIdle(p) ==
    /\ mpc[p] = "load"
    /\ loaded_mint_address' = [loaded_mint_address EXCEPT ![p] = load_token_from_csv(queue)]
    /\ Goto(p, "reassert_exists")
    /\ UNCHANGED <<lock, lock_created_by_this_instance, current_pid_in_lock,
                   g_current_mint_address, g_current_tasks>>
    /\ MainFrame(p)

\* main: top of the while loop, the queue is read
Load(p) ==
    /\ mpc[p] = "load"
    /\ loaded_mint_address' = [loaded_mint_address EXCEPT ![p] = load_token_from_csv(queue)]
    /\ Goto(p, IF load_token_from_csv(queue) = NoMint THEN "idle_exists" ELSE "reassert_exists")
    /\ UNCHANGED <<lock, lock_created_by_this_instance, current_pid_in_lock,
                   g_current_mint_address, g_current_tasks>>
    /\ MainFrame(p)

\* a release starts: lock_created_by_this_instance and os.path.exists
ReleaseExists(p, here, read, skip) ==
    /\ mpc[p] = here
    /\ Goto(p, IF lock_created_by_this_instance[p] /\ lock # NoLock THEN read ELSE skip)
    /\ UNCHANGED <<lock, lock_created_by_this_instance, current_pid_in_lock,
                   loaded_mint_address, g_current_mint_address, g_current_tasks>>
    /\ MainFrame(p)

\* a release reads the pid in the file; a file that is gone reads as ""
ReleaseRead(p, here, next) ==
    /\ mpc[p] = here
    /\ current_pid_in_lock' = [current_pid_in_lock EXCEPT ![p] = lock.pid]
    /\ Goto(p, next)
    /\ UNCHANGED <<lock, lock_created_by_this_instance, loaded_mint_address,
                   g_current_mint_address, g_current_tasks>>
    /\ MainFrame(p)

\* the pid read is compared with os.getpid()
OwnPidRead(p) == current_pid_in_lock[p] = p

\* a release ends: os.remove if the pid read was this process's; the pid
\* read is not used again
ReleaseRemove(p, here, next) ==
    /\ mpc[p] = here
    /\ lock' = IF OwnPidRead(p) THEN NoLock ELSE lock
    /\ current_pid_in_lock' = [current_pid_in_lock EXCEPT ![p] = NoPid]
    /\ Goto(p, next)
    /\ UNCHANGED <<lock_created_by_this_instance,
                   loaded_mint_address, g_current_mint_address, g_current_tasks>>
    /\ MainFrame(p)

\* main, no token: the three steps of the idle release
IdleExists(p) == ReleaseExists(p, "idle_exists", "idle_read", "idle_reset")
IdleRead(p) == ReleaseRead(p, "idle_read", "idle_remove")
IdleRemove(p) == ReleaseRemove(p, "idle_remove", "idle_reset")

\* main, no token: globals cleared, leftover tasks cancelled and awaited, sleep
IdleReset(p) ==
    /\ mpc[p] = "idle_reset"
    /\ g_current_mint_address' = [g_current_mint_address EXCEPT ![p] = NoMint]
    /\ IF HasTasks(p) /\ ~AllDone(p)
       THEN /\ g_current_tasks' = [g_current_tasks EXCEPT ![p] = CancelOthers(p, "main")]
            /\ UNCHANGED mpc
       ELSE /\ g_current_tasks' = [g_current_tasks EXCEPT ![p] = NoTasks]
            /\ Goto(p, "load")
    /\ UNCHANGED <<lock, lock_created_by_this_instance, current_pid_in_lock,
                   loaded_mint_address>>
    /\ MainFrame(p)

\* main, token loaded: lock_created_by_this_instance and not os.path.exists
ReassertExists(p) ==
    /\ mpc[p] = "reassert_exists"
    /\ Goto(p, IF lock_created_by_this_instance[p] /\ lock = NoLock
               THEN "reassert_write" ELSE "select")
    /\ UNCHANGED <<lock, lock_created_by_this_instance, current_pid_in_lock,
                   loaded_mint_address, g_current_mint_address, g_current_tasks>>
    /\ MainFrame(p)

\* main, token loaded: the lock file is written again
ReassertWrite(p) ==
    /\ mpc[p] = "reassert_write"
    /\ lock' = WriteLock(p)
    /\ Goto(p, "select")
    /\ UNCHANGED <<lock_created_by_this_instance, current_pid_in_lock,
                   loaded_mint_address, g_current_mint_address, g_current_tasks>>
    /\ MainFrame(p)

----------------------------------------------------------------------------
(* Monitoring.py: one epoch, from the creation of its tasks to their end *)

\* the start of an epoch as if reset_token_specific_state left the baseline
\* and the stagnation timer of the previous epoch in place
StartEpochOnOldBaseline(p) ==
    /\ g_current_mint_address' = [g_current_mint_address EXCEPT ![p] = loaded_mint_address[p]]
    /\ current_task_mint_address' = [current_task_mint_address EXCEPT ![p] = loaded_mint_address[p]]
    /\ g_latest_trade_data' = [g_latest_trade_data EXCEPT ![p] = <<>>]
    /\ g_trade_status' = [g_trade_status EXCEPT ![p] = "monitoring"]
    /\ g_buy_price_usd' = [g_buy_price_usd EXCEPT ![p] = NoPrice]
    /\ g_token_start_time' = [g_token_start_time EXCEPT ![p] = now]
    /\ g_buy_signal_detected' = [g_buy_signal_detected EXCEPT ![p] = FALSE]
    /\ current_time' = [current_time EXCEPT ![p] = NoTime]
    /\ usd_price_per_token' = [usd_price_per_token EXCEPT ![p] = NoPrice]
    /\ g_current_tasks' = [g_current_tasks EXCEPT ![p] = [t \in TaskNames |-> "run"]]
    /\ Goto(p, "gather")
    /\ UNCHANGED <<framesSeen, g_last_dex_price_fetch_time, g_baseline_price_usd,
                   g_stagnation_timer_start>>

\* reset_token_specific_state, and the locals of the fresh tasks
StartEpoch(p) ==
    /\ g_current_mint_address' = [g_current_mint_address EXCEPT ![p] = loaded_mint_address[p]]
    /\ current_task_mint_address' = [current_task_mint_address EXCEPT ![p] = loaded_mint_address[p]]
    /\ g_latest_trade_data' = [g_latest_trade_data EXCEPT ![p] = <<>>]
    /\ g_baseline_price_usd' = [g_baseline_price_usd EXCEPT ![p] = NoPrice]
    /\ g_trade_status' = [g_trade_status EXCEPT ![p] = "monitoring"]
    /\ g_buy_price_usd' = [g_buy_price_usd EXCEPT ![p] = NoPrice]
    /\ g_token_start_time' = [g_token_start_time EXCEPT ![p] = now]
    /\ g_buy_signal_detected' = [g_buy_signal_detected EXCEPT ![p] = FALSE]
    /\ g_stagnation_timer_start' = [g_stagnation_timer_start EXCEPT ![p] = NoTime]
    /\ current_time' = [current_time EXCEPT ![p] = NoTime]
    /\ usd_price_per_token' = [usd_price_per_token EXCEPT ![p] = NoPrice]
    /\ g_current_tasks' = [g_current_tasks EXCEPT ![p] = [t \in TaskNames |-> "run"]]
    /\ Goto(p, "gather")
    /\ UNCHANGED <<framesSeen, g_last_dex_price_fetch_time>>

\* main, token loaded: tasks of an old epoch are cancelled and awaited, then
\* the state is reset and the three tasks of the new epoch are created
Select(p) ==
    /\ mpc[p] = "select"
    /\ IF g_current_mint_address[p] # loaded_mint_address[p] \/ ~HasTasks(p)
       THEN IF HasTasks(p) /\ ~AllDone(p)
            THEN /\ g_current_tasks' = [g_current_tasks EXCEPT ![p] = CancelOthers(p, "main")]
                 /\ UNCHANGED <<mpc, g_current_mint_address, current_task_mint_address, epochVars>>
            ELSE StartEpoch(p)
       ELSE /\ Goto(p, "gather")
            /\ UNCHANGED <<g_current_tasks, g_current_mint_address,
                           current_task_mint_address, epochVars>>
    /\ UNCHANGED <<restVars, timeVars, fileVars, scanVars, rpc, lock_created_by_this_instance,
                   current_pid_in_lock, loaded_mint_address>>

\* every step of a task leaves these alone unless it says otherwise
TaskFrame ==
    UNCHANGED <<restVars, timeVars, queue, queueEdits, csv_modified, scriptExists,
                lock_created_by_this_instance,
                current_pid_in_lock, loaded_mint_address, g_current_mint_address,
                current_task_mint_address, spc,
                monitoring_process, lock_file_age, running_process>>

SetTask(p, t, st) == g_current_tasks' = [g_current_tasks EXCEPT ![p][t] = st]

\* the next pass of the event loop: every task whose cancellation was
\* requested gets CancelledError at its await
TaskCancelled(p) ==
    /\ Free(p)
    /\ \E t \in TaskNames : g_current_tasks[p][t] = "cancel"
    /\ g_current_tasks' = [g_current_tasks EXCEPT ![p] =
            [t \in TaskNames |-> IF @[t] = "cancel" THEN "cancelled" ELSE @[t]]]
    /\ UNCHANGED <<lock, trades_csv, scannersStarted, mpc, rpc, epochVars>>
    /\ TaskFrame

----------------------------------------------------------------------------
(* listen_for_trades *)

\* the deque as if a full buffer refused the new sample
DequeAppendKeepsOldest(buf, x) ==
    IF Len(buf) >= BUFFER_MAXLEN THEN buf ELSE Append(buf, x)

\* deque(maxlen=100).append: the oldest sample is evicted from a full buffer
DequeAppend(buf, x) ==
    IF Len(buf) >= BUFFER_MAXLEN THEN Append(Tail(buf), x) ELSE Append(buf, x)

\* the sample the listener builds from a frame: its two amounts, with the
\* mint of the frame as the history of the sample (side and wallet, never
\* read, are left out)
Sample(mint, trade) ==
    [amount |-> trade.amount, solAmount |-> trade.solAmount, mint |-> mint]

\* the listener as if it appended the frames of every mint
FrameNeverSkipped(p, mint) == FALSE

\* line 416: a frame for another mint than the task's is dropped
FrameSkipped(p, mint) == mint # current_task_mint_address[p]

\* a trade frame arrives: it is dropped if it is for another mint
FeedFrame(p) ==
    /\ Free(p)
    /\ g_current_tasks[p]["listener"] = "run"
    /\ framesSeen[p] < MaxFrames
    /\ framesSeen' = [framesSeen EXCEPT ![p] = @ + 1]
    /\ \E mint \in Addrs, trade \in TradeSizes :
        g_latest_trade_data' =
            IF FrameSkipped(p, mint) THEN g_latest_trade_data
            ELSE [g_latest_trade_data EXCEPT
                    ![p] = DequeAppend(@, Sample(mint, trade))]
    /\ UNCHANGED <<lock, trades_csv, scannersStarted, mpc, rpc, g_current_tasks,
                   g_last_dex_price_fetch_time, g_baseline_price_usd, g_trade_status,
                   g_buy_price_usd, g_token_start_time, g_buy_signal_detected,
                   g_stagnation_timer_start, current_time, usd_price_per_token>>
    /\ TaskFrame

\* a stream of trades of the monitored mint, for one token each, the k-th
\* for 100000 + k lamports: the prices stay within 1 % of each other
FeedStream(p) ==
    /\ Free(p)
    /\ g_current_tasks[p]["listener"] = "run"
    /\ framesSeen[p] < MaxStream
    /\ framesSeen' = [framesSeen EXCEPT ![p] = @ + 1]
    /\ g_latest_trade_data' = [g_latest_trade_data EXCEPT ![p] =
            DequeAppend(@, Sample(current_task_mint_address[p],
                    [amount |-> 1, solAmount |-> 100000 + framesSeen[p] + 1]))]
    /\ UNCHANGED <<lock, trades_csv, scannersStarted, mpc, rpc, g_current_tasks,
                   g_last_dex_price_fetch_time, g_baseline_price_usd, g_trade_status,
                   g_buy_price_usd, g_token_start_time, g_buy_signal_detected,
                   g_stagnation_timer_start, current_time, usd_price_per_token>>
    /\ TaskFrame

\* every step of the listener's loop leaves these alone
ListenerFrame ==
    UNCHANGED <<timeVars, fileVars, scanVars, mpc, rpc, lock_created_by_this_instance,
                current_pid_in_lock, loaded_mint_address, g_current_mint_address,
                current_task_mint_address, g_last_dex_price_fetch_time,
                g_baseline_price_usd, g_trade_status, g_buy_price_usd,
                g_token_start_time, g_buy_signal_detected, g_stagnation_timer_start,
                current_time, usd_price_per_token, sigint, take_profit_threshold,
                stop_loss_threshold, process_lock_file, lock_acquired, cpc>>

\* the listener as if an error of the connection ended its task
ListenerRaises(p) ==
    /\ g_current_tasks' = [g_current_tasks EXCEPT ![p]["listener"] = "error"]
    /\ UNCHANGED reconnect_at

\* the listener leaves `async with`, which closes the websocket, and enters
\* asyncio.sleep(5)
ListenerSleeps(p) ==
    /\ g_current_tasks' = [g_current_tasks EXCEPT ![p]["listener"] = "sleep"]
    /\ reconnect_at' = [reconnect_at EXCEPT ![p] = now + RECONNECT_DELAY_SECONDS]

\* the exception, if any, that a frame which is not a well-formed trade
\* raises out of the body of `async for`: json.loads is outside the inner
\* try and raises on invalid JSON; data.get raises on JSON that is not an
\* object; a frame for another mint is skipped before its amounts are read;
\* float() raises ValueError on text, which line 427 catches, and TypeError
\* on null, which it does not; a frame without amounts is ignored
FrameRaises(fault, own) ==
    \/ fault \in {"invalid_json", "not_an_object"}
    \/ fault = "null_amount" /\ own

\* a frame arrives that is not a well-formed trade: nothing is appended, and
\* an exception it raises is caught by `except Exception` around the
\* connection
FeedMalformed(p) ==
    /\ Free(p)
    /\ g_current_tasks[p]["listener"] = "run"
    /\ framesSeen[p] < MaxFrames
    /\ framesSeen' = [framesSeen EXCEPT ![p] = @ + 1]
    /\ \E fault \in {"invalid_json", "not_an_object", "no_amounts",
                      "text_amount", "null_amount"}, own \in BOOLEAN :
        IF FrameRaises(fault, own)
        THEN ListenerSleeps(p)
        ELSE UNCHANGED <<g_current_tasks, reconnect_at>>
    /\ UNCHANGED g_latest_trade_data
    /\ ListenerFrame

\* the server closes the connection, cleanly (the `async for` ends) or not
\* (ConnectionClosed or another error is raised and caught)
FeedClosed(p) ==
    /\ Free(p)
    /\ g_current_tasks[p]["listener"] = "run"
    /\ framesSeen[p] < MaxFrames
    /\ framesSeen' = [framesSeen EXCEPT ![p] = @ + 1]
    /\ ListenerSleeps(p)
    /\ UNCHANGED g_latest_trade_data
    /\ ListenerFrame

\* the sleep is over: websockets.connect and the subscription succeed and
\* the listener receives again, or they fail and it sleeps again
FeedReconnect(p) ==
    /\ Free(p)
    /\ g_current_tasks[p]["listener"] = "sleep"
    /\ now >= reconnect_at[p]
    /\ \/ /\ g_current_tasks' = [g_current_tasks EXCEPT ![p]["listener"] = "run"]
          /\ UNCHANGED reconnect_at
       \/ ListenerSleeps(p)
    /\ UNCHANGED <<g_latest_trade_data, framesSeen>>
    /\ ListenerFrame

----------------------------------------------------------------------------
(* trade_logic_and_price_display_loop *)

\* the price of the most recent trade, if its token amount is positive
FeedPrice(buf) ==
    IF buf # <<>> /\ buf[Len(buf)].amount > 0
    THEN (buf[Len(buf)].solAmount * g_last_known_sol_price) \div buf[Len(buf)].amount
    ELSE NoPrice

\* prices Dexscreener can answer with; NoPrice when no endpoint has one
OraclePrices == {s * g_last_known_sol_price : s \in SolAmounts} \cup {NoPrice}

\* the answers of a Dexscreener that quotes one price, or is down
FlatPrices == {100 * g_last_known_sol_price, NoPrice}

\* the buy signal as if a price at the threshold raised it
BuySignalAtThreshold(price, baseline) ==
    100 * price >= BUY_SIGNAL_PRICE_INCREASE_PERCENT * baseline

\* take profit as if only a price above the threshold closed the epoch
TakeProfitAbove(price, buy) == 100 * price > TAKE_PROFIT_THRESHOLD_PERCENT * buy

\* the stop-loss check as if its threshold were 0.70
StopLossAtSeventy(price, buy) == 100 * price <= 70 * buy

\* the take-profit check as if the stop-loss check came first
TakeProfitUnlessStopLoss(price, buy) ==
    /\ 100 * price >= take_profit_threshold * buy
    /\ ~(100 * price <= stop_loss_threshold * buy)

\* the no-buy-signal timeout as if it fired once 180 s have elapsed
NoBuySignalTimeoutAtLimit(ct, start) == (ct - start) >= NO_BUY_SIGNAL_TIMEOUT_SECONDS

\* the no-data timeout as if it waited for the maximum age of the lock
NoDataTimeoutAfterLockAge(ct, start) == (ct - start) > LOCK_MAX_AGE_SECONDS

\* the buy signal as if the baseline had to exceed the price
BuySignalSwapped(price, baseline) ==
    100 * baseline > BUY_SIGNAL_PRICE_INCREASE_PERCENT * price

\* the comparisons of the lifecycle checks, on prices in percent
BuySignal(price, baseline) == 100 * price > BUY_SIGNAL_PRICE_INCREASE_PERCENT * baseline
TakeProfit(price, buy) == 100 * price >= take_profit_threshold * buy
StopLoss(price, buy) == 100 * price <= stop_loss_threshold * buy
BelowStagnation(price, baseline) == 100 * price < STAGNATION_PRICE_THRESHOLD_PERCENT * baseline

\* the comparisons of the lifecycle checks, on times in seconds
NoBuySignalTimeout(ct, start) == (ct - start) > NO_BUY_SIGNAL_TIMEOUT_SECONDS
StagnationTimeout(ct, timer) == (ct - timer) > STAGNATION_TIMEOUT_SECONDS
NoDataTimeout(ct, start) == (ct - start) > STAGNATION_TIMEOUT_SECONDS

\* the baseline as if every tick that has a price moved it
BaselineFollowsPrice(price, baseline) ==
    IF price # NoPrice THEN price ELSE baseline

\* the baseline after the tick: the price of the tick if none was set
InitialBaseline(price, baseline) ==
    IF price # NoPrice /\ baseline = NoPrice THEN price ELSE baseline

\* the buy price as if every tick that has a price moved it
BuyPriceFollowsPrice(signal, price, buy) ==
    IF price # NoPrice THEN price ELSE buy

\* the buy price after the tick: the price of the tick that raises the buy
\* signal
BuyPrice(signal, price, buy) == IF signal THEN price ELSE buy

\* the stagnation timer as if every tick below the threshold restarted it
StagnationTimerRestarted(below, timer, ct) == IF below THEN ct ELSE NoTime

\* the stagnation timer after a tick that has a price and reaches the
\* stagnation check: started if the price is below the threshold and the
\* timer is unset, kept if it is set, reset if the price is not below
StagnationTimer(below, timer, ct) ==
    IF below THEN IF timer = NoTime THEN ct ELSE timer ELSE NoTime

\* the lifecycle checks of one tick with price `price` taken at time `ct`:
\* the values of the globals after the tick and the reason it raises
\* TokenProcessingComplete with ("none" when the tick ends in the sleep)
EvaluateTick(p, price, ct) ==
    LET base == InitialBaseline(price, g_baseline_price_usd[p])
        signal == /\ base # NoPrice
                  /\ ~g_buy_signal_detected[p]
                  /\ price # NoPrice
                  /\ BuySignal(price, base)
        timeout == /\ base # NoPrice
                   /\ ~g_buy_signal_detected[p]
                   /\ ~signal
                   /\ NoBuySignalTimeout(ct, g_token_start_time[p])
        bought == g_buy_signal_detected[p] \/ signal
        buy == BuyPrice(signal, price, g_buy_price_usd[p])
        holding == base # NoPrice /\ ~timeout /\ bought /\ buy # NoPrice /\ price # NoPrice
        profit == holding /\ TakeProfit(price, buy)
        loss == holding /\ ~profit /\ StopLoss(price, buy)
        open == base # NoPrice /\ ~timeout /\ ~profit /\ ~loss
        below == open /\ price # NoPrice /\ BelowStagnation(price, base)
        stagnant == /\ below
                    /\ g_stagnation_timer_start[p] # NoTime
                    /\ StagnationTimeout(ct, g_stagnation_timer_start[p])
        nodata == /\ open
                  /\ price = NoPrice
                  /\ g_stagnation_timer_start[p] = NoTime
                  /\ NoDataTimeout(ct, g_token_start_time[p])
        timer == IF open /\ price # NoPrice
                 THEN StagnationTimer(below, g_stagnation_timer_start[p], ct)
                 ELSE g_stagnation_timer_start[p]
    IN  [baseline |-> base,
         buy_signal |-> bought,
         buy_price |-> buy,
         status |-> IF signal THEN "bought" ELSE g_trade_status[p],
         stagnation |-> timer,
         reason |-> CASE timeout -> "No buy signal timeout"
                      [] profit -> "Take profit"
                      [] loss -> "Stop loss"
                      [] stagnant -> "Stagnation timeout"
                      [] nodata -> "Stagnation timeout - no price data"
                      [] OTHER -> "none",
         out_buy |-> IF profit \/ loss THEN buy ELSE NoPrice,
         out_sell |-> IF nodata THEN NoPrice ELSE price]

\* sys.exit(0) inside the trader task: SystemExit leaves the event loop,
\* asyncio.run cancels every task, main included, and main runs its finally
SystemExit(p) ==
    /\ g_current_tasks' = [g_current_tasks EXCEPT
                             ![p] = [CancelOthers(p, "trader") EXCEPT !["trader"] = "sysexit"]]
    /\ mpc' = [mpc EXCEPT ![p] = "finally"]

\* raise TokenProcessingComplete(...): __init__ appends the row to trades.csv
\* and enters restart_sniperx_v2, which ends in sys.exit(0) whether or not
\* the scanner script is found; if the log cannot be written the tick raises
\* that error instead
RaiseTokenProcessingComplete(p, row, logOk) ==
    IF ~logOk
    THEN /\ SetTask(p, "trader", "error")
         /\ UNCHANGED <<trades_csv, rpc, mpc>>
    ELSE /\ trades_csv' = Append(trades_csv, row)
         /\ IF scriptExists
            THEN /\ rpc' = [rpc EXCEPT ![p] = "restart_exists"]
                 /\ UNCHANGED <<g_current_tasks, mpc>>
            ELSE /\ SystemExit(p)
                 /\ UNCHANGED rpc

\* the rest of a tick once its price is known
Lifecycle(p, price, ct) ==
    LET r == EvaluateTick(p, price, ct)
    IN  /\ usd_price_per_token' = [usd_price_per_token EXCEPT ![p] = price]
        /\ current_time' = [current_time EXCEPT ![p] = NoTime]
        /\ g_baseline_price_usd' = [g_baseline_price_usd EXCEPT ![p] = r.baseline]
        /\ g_buy_signal_detected' = [g_buy_signal_detected EXCEPT ![p] = r.buy_signal]
        /\ g_buy_price_usd' = [g_buy_price_usd EXCEPT ![p] = r.buy_price]
        /\ g_trade_status' = [g_trade_status EXCEPT ![p] = r.status]
        /\ g_stagnation_timer_start' = [g_stagnation_timer_start EXCEPT ![p] = r.stagnation]
        /\ IF r.reason = "none"
           THEN /\ SetTask(p, "trader", "run")
                /\ UNCHANGED <<trades_csv, rpc, mpc>>
           ELSE \E logOk \in BOOLEAN :
                    RaiseTokenProcessingComplete(p,
                        [mint_address |-> current_task_mint_address[p],
                         reason |-> r.reason,
                         buy_price |-> r.out_buy,
                         sell_price |-> r.out_sell], logOk)

\* Dexscreener as if it were asked in every tick the feed gave no price in
OracleDueWithoutCooldown(p, price, ct) == price = NoPrice

\* Dexscreener is asked when the feed gave no price and the cooldown is over
OracleDue(p, price, ct) ==
    /\ price = NoPrice
    /\ (ct - g_last_dex_price_fetch_time[p]) > DEXSCREENER_PRICE_UPDATE_INTERVAL_SECONDS

\* one tick up to its first await: either the whole tick, or up to the
\* Dexscreener request
EvalTick(p) ==
    /\ Free(p)
    /\ g_current_tasks[p]["trader"] = "run"
    /\ IF g_current_mint_address[p] # current_task_mint_address[p]
       THEN /\ SetTask(p, "trader", "returned")
            /\ UNCHANGED <<trades_csv, rpc, mpc, epochVars>>
       ELSE LET price == FeedPrice(g_latest_trade_data[p])
            IN  /\ IF OracleDue(p, price, now)
                   THEN /\ SetTask(p, "trader", "oracle")
                        /\ current_time' = [current_time EXCEPT ![p] = now]
                        /\ UNCHANGED <<trades_csv, rpc, mpc, usd_price_per_token,
                                       g_baseline_price_usd, g_buy_signal_detected,
                                       g_buy_price_usd, g_trade_status,
                                       g_stagnation_timer_start>>
                   ELSE Lifecycle(p, price, now)
                /\ UNCHANGED <<g_latest_trade_data, framesSeen, g_token_start_time,
                               g_last_dex_price_fetch_time>>
    /\ UNCHANGED <<lock, scannersStarted>>
    /\ TaskFrame

\* the Dexscreener request returns and the tick goes on with its answer,
\* one of `answers`
EvalOracle(p, answers) ==
    /\ Free(p)
    /\ g_current_tasks[p]["trader"] = "oracle"
    /\ g_last_dex_price_fetch_time' = [g_last_dex_price_fetch_time EXCEPT ![p] = current_time[p]]
    /\ \E dex \in answers : Lifecycle(p, dex, current_time[p])
    /\ UNCHANGED <<lock, scannersStarted, g_latest_trade_data, framesSeen,
                   g_token_start_time>>
    /\ TaskFrame

\* the evaluator seen from outside the process: at some tick it raises
\* TokenProcessingComplete; which tick, and what it did to the epoch's
\* globals before, is left open
EvalCloses(p) ==
    /\ Free(p)
    /\ g_current_tasks[p]["trader"] = "run"
    /\ g_current_mint_address[p] = current_task_mint_address[p]
    /\ \E logOk \in BOOLEAN :
        RaiseTokenProcessingComplete(p,
            [mint_address |-> current_task_mint_address[p],
             reason |-> "No buy signal timeout",
             buy_price |-> NoPrice,
             sell_price |-> NoPrice], logOk)
    /\ UNCHANGED <<lock, scannersStarted, epochVars>>
    /\ TaskFrame

----------------------------------------------------------------------------
(* TokenProcessingComplete.__init__ after the log: restart_sniperx_v2 *)

RestartFrame ==
    UNCHANGED <<trades_csv, epochVars>>

\* restart_sniperx_v2: os.path.exists(lock_file)
RestartExists(p) ==
    /\ Alive(p)
    /\ rpc[p] = "restart_exists"
    /\ rpc' = [rpc EXCEPT ![p] = IF lock # NoLock THEN "restart_remove" ELSE "restart_popen"]
    /\ UNCHANGED <<lock, scannersStarted, mpc, g_current_tasks>>
    /\ RestartFrame
    /\ TaskFrame

\* restart_sniperx_v2: os.remove(lock_file), without looking at its content
RestartRemove(p) ==
    /\ Alive(p)
    /\ rpc[p] = "restart_remove"
    /\ lock' = NoLock
    /\ rpc' = [rpc EXCEPT ![p] = "restart_popen"]
    /\ UNCHANGED <<scannersStarted, mpc, g_current_tasks>>
    /\ RestartFrame
    /\ TaskFrame

\* restart_sniperx_v2: a new scanner is spawned and this process exits
RestartPopen(p) ==
    /\ Alive(p)
    /\ rpc[p] = "restart_popen"
    /\ scannersStarted' = scannersStarted + 1
    /\ rpc' = [rpc EXCEPT ![p] = "none"]
    /\ SystemExit(p)
    /\ UNCHANGED lock
    /\ RestartFrame
    /\ TaskFrame

----------------------------------------------------------------------------
(* periodic_csv_checker *)

\* the poll as if the watcher cleared the epoch's state itself when it
\* finds another target
WatcherPollResets(p) ==
    /\ Free(p)
    /\ g_current_tasks[p]["checker"] = "run"
    /\ IF g_current_mint_address[p] # current_task_mint_address[p]
       THEN /\ SetTask(p, "checker", "returned")
            /\ UNCHANGED epochVars
       ELSE IF load_token_from_csv(queue) # current_task_mint_address[p]
            THEN /\ g_current_tasks' = [g_current_tasks EXCEPT
                        ![p] = [CancelOthers(p, "checker") EXCEPT !["checker"] = "restart"]]
                 /\ g_baseline_price_usd' = [g_baseline_price_usd EXCEPT ![p] = NoPrice]
                 /\ UNCHANGED <<g_latest_trade_data, framesSeen,
                                g_last_dex_price_fetch_time, g_trade_status,
                                g_buy_price_usd, g_token_start_time,
                                g_buy_signal_detected, g_stagnation_timer_start,
                                current_time, usd_price_per_token>>
            ELSE UNCHANGED <<g_current_tasks, epochVars>>
    /\ UNCHANGED <<lock, trades_csv, scannersStarted, mpc, rpc>>
    /\ TaskFrame

\* one poll: the queue is read again and compared with the epoch's address
WatcherPoll(p) ==
    /\ Free(p)
    /\ g_current_tasks[p]["checker"] = "run"
    /\ IF g_current_mint_address[p] # current_task_mint_address[p]
       THEN SetTask(p, "checker", "returned")
       ELSE IF \/ /\ load_token_from_csv(queue) # NoMint
                  /\ load_token_from_csv(queue) # current_task_mint_address[p]
               \/ /\ load_token_from_csv(queue) = NoMint
                  /\ current_task_mint_address[p] # NoMint
            THEN g_current_tasks' = [g_current_tasks EXCEPT
                    ![p] = [CancelOthers(p, "checker") EXCEPT !["checker"] = "restart"]]
            ELSE UNCHANGED g_current_tasks
    /\ UNCHANGED <<lock, trades_csv, scannersStarted, mpc, rpc, epochVars>>
    /\ TaskFrame

----------------------------------------------------------------------------
(* Monitoring.py: main after the epoch *)

\* the classification as if the last result that is not a cancellation
\* decided
ClassifyByLast(results) ==
    LET order == <<"listener", "trader", "checker">>
        hits == {i \in 1..3 : results[order[i]] \in {"complete", "restart", "error"}}
        last == CHOOSE i \in hits : \A j \in hits : i >= j
    IN  IF hits = {} THEN "none"
        ELSE CASE results[order[last]] = "complete" -> "completed"
               [] results[order[last]] = "restart" -> "restart_required"
               [] OTHER -> "error"

\* the loop over the results of gather, in task order: the first result that
\* is not a cancellation decides
Classify(results) ==
    LET order == <<"listener", "trader", "checker">>
        hits == {i \in 1..3 : results[order[i]] \in {"complete", "restart", "error"}}
        first == CHOOSE i \in hits : \A j \in hits : i <= j
    IN  IF hits = {} THEN "none"
        ELSE CASE results[order[first]] = "complete" -> "completed"
               [] results[order[first]] = "restart" -> "restart_required"
               [] OTHER -> "error"

\* main: gather returns once every task has ended; the results are
\* classified, the task list and the globals are cleared, and the loop goes
\* on or RestartRequired is raised out of it
Gather(p) ==
    /\ mpc[p] = "gather"
    /\ rpc[p] = "none"
    /\ AllDone(p)
    /\ LET outcome == Classify(g_current_tasks[p])
       IN  /\ IF outcome = "completed"
              THEN /\ queue' = remove_token_from_csv(current_task_mint_address[p], queue)
                   /\ csv_modified' = (csv_modified \/ queue' # queue)
              ELSE UNCHANGED <<queue, csv_modified>>
           /\ Goto(p, IF outcome = "restart_required" THEN "finally" ELSE "load")
    /\ g_current_tasks' = [g_current_tasks EXCEPT ![p] = NoTasks]
    /\ g_current_mint_address' = [g_current_mint_address EXCEPT ![p] = NoMint]
    /\ UNCHANGED <<restVars, timeVars, lock, queueEdits, trades_csv, scriptExists, rpc,
                   lock_created_by_this_instance, current_pid_in_lock,
                   loaded_mint_address, current_task_mint_address, epochVars, scanVars>>

\* SIGINT while the event loop waits: asyncio.run cancels the main task
\* and, with it or after it, every task of the epoch; main gets the
\* cancellation at the await it is at and goes to its finally clause
Interrupt(p) ==
    /\ Free(p)
    /\ mpc[p] \in {"load", "idle_reset", "select", "gather"}
    /\ p \notin sigint
    /\ sigint' = sigint \cup {p}
    /\ g_current_tasks' = [g_current_tasks EXCEPT ![p] = CancelOthers(p, "main")]
    /\ Goto(p, "finally")
    /\ UNCHANGED <<take_profit_threshold, stop_loss_threshold, process_lock_file,
                   lock_acquired, cpc, reconnect_at, timeVars, fileVars, scanVars, epochVars, rpc,
                   lock_created_by_this_instance, current_pid_in_lock,
                   loaded_mint_address, g_current_mint_address,
                   current_task_mint_address>>

\* main, finally: tasks that are not done are cancelled and awaited
Finally(p) ==
    /\ mpc[p] = "finally"
    /\ rpc[p] = "none"
    /\ IF HasTasks(p) /\ ~AllDone(p)
       THEN /\ CancelOthers(p, "main") # g_current_tasks[p]
            /\ g_current_tasks' = [g_current_tasks EXCEPT ![p] = CancelOthers(p, "main")]
            /\ UNCHANGED mpc
       ELSE /\ Goto(p, "exit_exists")
            /\ UNCHANGED g_current_tasks
    /\ UNCHANGED <<lock, lock_created_by_this_instance, current_pid_in_lock,
                   loaded_mint_address, g_current_mint_address>>
    /\ MainFrame(p)

\* main, finally: the three steps of the release on exit
ExitExists(p) == ReleaseExists(p, "exit_exists", "exit_read", "return")
ExitRead(p) == ReleaseRead(p, "exit_read", "exit_remove")
ExitRemove(p) == ReleaseRemove(p, "exit_remove", "return")

\* __main__: asyncio.run returns or raises SystemExit, the process ends
ProcessEnd(p) ==
    /\ mpc[p] = "return"
    /\ mpc' = [mpc EXCEPT ![p] = "exited"]
    /\ Forget(p)
    /\ UNCHANGED <<restVars, timeVars, fileVars, scanVars>>

----------------------------------------------------------------------------
(* SniperX V2: start-up and the lock check of the scanner loop *)

ScanFrame ==
    UNCHANGED <<restVars, timeVars, queue, queueEdits, csv_modified, trades_csv, scriptExists,
                scannersStarted, running_process, rpc, lock_created_by_this_instance,
                current_pid_in_lock, loaded_mint_address, g_current_mint_address,
                current_task_mint_address, epochVars>>

\* __main__: Monitoring.py is started as a child, then the loop is entered
ScannerStart(p) ==
    /\ spc = "init"
    /\ mpc[p] = "off"
    /\ p = NextPid
    /\ mpc' = [mpc EXCEPT ![p] = "startup"]
    /\ monitoring_process' = p
    /\ UNCHANGED lock_file_age
    /\ spc' = "check"
    /\ UNCHANGED <<lock, g_current_tasks>>
    /\ ScanFrame

\* loop: os.path.exists(monitoring_lock_file_path); no lock, a cycle starts
ScannerExists ==
    /\ spc = "check"
    /\ spc' = IF lock # NoLock THEN "age" ELSE "cycle"
    /\ UNCHANGED <<lock, mpc, g_current_tasks, monitoring_process, lock_file_age>>
    /\ ScanFrame

\* the age compared as if the limit were the first age that is too old
LockTooOldAtLimit(age) == age >= LOCK_MAX_AGE_SECONDS

\* the age compared as if the limit were given in minutes
LockTooOldInMinutes(age) == age > LOCK_MAX_AGE_SECONDS * 60

\* the lock is older than five minutes
LockTooOld(age) == age > LOCK_MAX_AGE_SECONDS

\* loop: os.path.getmtime raises if the file is gone, which ends the loop;
\* an old lock is to be removed, a young one makes the scanner pause
ScannerAge ==
    /\ spc = "age"
    /\ spc' = IF lock = NoLock THEN "finally"
              ELSE IF LockTooOld(now - lock.mtime) THEN "remove" ELSE "check"
    /\ lock_file_age' = IF lock = NoLock THEN lock_file_age ELSE now - lock.mtime
    /\ UNCHANGED <<lock, mpc, g_current_tasks, monitoring_process>>
    /\ ScanFrame

\* loop: os.remove of the old lock, then the cycle starts
ScannerRemove ==
    /\ spc = "remove"
    /\ lock' = NoLock
    /\ spc' = "cycle"
    /\ UNCHANGED <<mpc, g_current_tasks, monitoring_process, lock_file_age>>
    /\ ScanFrame

\* loop: main_token_processing_loop returns, the lock is checked again
ScannerCycle ==
    /\ spc = "cycle"
    /\ spc' = "check"
    /\ UNCHANGED <<lock, mpc, g_current_tasks, monitoring_process, lock_file_age>>
    /\ ScanFrame

\* finally: the child Monitoring.py is terminated if it still runs
ScannerFinally ==
    /\ spc = "finally"
    /\ spc' = "dead"
    /\ IF monitoring_process # NoPid /\ Alive(monitoring_process)
       THEN Killed(monitoring_process)
       ELSE UNCHANGED <<mainVars, epochVars>>
    /\ UNCHANGED <<restVars, timeVars, fileVars, scannersStarted, running_process, monitoring_process,
                   lock_file_age>>

----------------------------------------------------------------------------
(* run_monitoring_on_analysis_change.py: the CSV watchdog *)

\* _pid_is_running
PidIsRunning(pid) == pid \in Procs /\ Alive(pid)

\* on_modified: nothing is done while the lock names a running pid; else a
\* lock left behind is removed, the Monitoring.py started before is
\* terminated and a new one is started
OnModified ==
    /\ csv_modified
    /\ csv_modified' = FALSE
    /\ IF lock # NoLock /\ PidIsRunning(lock.pid)
       THEN UNCHANGED <<lock, mainVars, epochVars, running_process>>
       ELSE \E p \in Procs :
            /\ mpc[p] = "off"
            /\ p = NextPid
            /\ lock' = NoLock
            /\ running_process' = p
            /\ IF running_process # NoPid /\ Alive(running_process)
               THEN /\ mpc' = [mpc EXCEPT ![running_process] = "crashed", ![p] = "startup"]
                    /\ Forget(running_process)
               ELSE /\ mpc' = [mpc EXCEPT ![p] = "startup"]
                    /\ UNCHANGED <<rpc, lock_created_by_this_instance, current_pid_in_lock,
                                   loaded_mint_address, g_current_mint_address,
                                   g_current_tasks, current_task_mint_address, epochVars>>
    /\ UNCHANGED <<restVars, timeVars, queue, queueEdits, trades_csv, scriptExists, scannersStarted,
                   spc, monitoring_process, lock_file_age>>

----------------------------------------------------------------------------
(* process_lock.py: ProcessLock on process.lock, and the pause decorator.   *)
(* A step is one file-system call on process.lock; the assignment of       *)
(* lock_acquired that ends release is a step of its own, since the process *)
(* can be preempted between the unlink and it.                             *)

\* os.path.basename(sys.argv[0]).lower() of each client script
current_script(c) ==
    CASE c = 11 -> "example_usage.py"
      [] c = 12 -> "sniperx v2.py"
      [] OTHER -> "telegram_manager.py"

\* ProcessLock.is_locked of the global instance: process.lock exists
is_locked == process_lock_file # NoFile

\* should_pause_execution in the script of client c
should_pause_execution(c) ==
    IF current_script(c) \in {"monitoring.py", "telegram_manager.py", "wallet_manager.py"}
    THEN FALSE
    ELSE is_locked

\* every step of a client script leaves these alone
ClientFrame ==
    UNCHANGED <<timeVars, fileVars, mainVars, epochVars, scanVars, sigint,
                take_profit_threshold, stop_loss_threshold, reconnect_at>>

\* acquire as if the file were opened without O_EXCL: an existing file is
\* truncated
acquire_open_truncating(c) ==
    /\ cpc[c] = "idle"
    /\ ~lock_acquired[c]
    /\ process_lock_file' = EmptyFile
    /\ cpc' = [cpc EXCEPT ![c] = "created"]
    /\ UNCHANGED lock_acquired
    /\ ClientFrame

\* acquire, not holding: os.open with O_CREAT | O_EXCL creates the file if
\* it is absent; if it exists the call fails, and acquire tries again or
\* returns False
acquire_open(c) ==
    /\ cpc[c] = "idle"
    /\ ~lock_acquired[c]
    /\ IF process_lock_file = NoFile
       THEN /\ process_lock_file' = EmptyFile
            /\ cpc' = [cpc EXCEPT ![c] = "created"]
       ELSE UNCHANGED <<process_lock_file, cpc>>
    /\ UNCHANGED lock_acquired
    /\ ClientFrame

\* acquire: the pid is written into the file just created and acquire
\* returns True; if the write fails the file stays and acquire tries again
\* or returns False
acquire_write(c) ==
    /\ cpc[c] = "created"
    /\ \E written \in BOOLEAN :
        IF written
        THEN /\ process_lock_file' = c
             /\ lock_acquired' = [lock_acquired EXCEPT ![c] = TRUE]
        ELSE UNCHANGED <<process_lock_file, lock_acquired>>
    /\ cpc' = [cpc EXCEPT ![c] = "idle"]
    /\ ClientFrame

\* release, holding: os.path.exists(self.lock_file)
release_exists(c) ==
    /\ cpc[c] = "idle"
    /\ lock_acquired[c]
    /\ cpc' = [cpc EXCEPT ![c] = IF is_locked THEN "release_read" ELSE "release_end"]
    /\ UNCHANGED <<process_lock_file, lock_acquired>>
    /\ ClientFrame

\* release: the first line of the file is read and compared with the pid
release_read(c) ==
    /\ cpc[c] = "release_read"
    /\ cpc' = [cpc EXCEPT ![c] = IF process_lock_file = c
                                  THEN "release_unlink" ELSE "release_end"]
    /\ UNCHANGED <<process_lock_file, lock_acquired>>
    /\ ClientFrame

\* release: os.unlink(self.lock_file)
release_unlink(c) ==
    /\ cpc[c] = "release_unlink"
    /\ process_lock_file' = NoFile
    /\ cpc' = [cpc EXCEPT ![c] = "release_end"]
    /\ UNCHANGED lock_acquired
    /\ ClientFrame

\* release: self.lock_acquired = False, after the try block
release_end(c) ==
    /\ cpc[c] = "release_end"
    /\ lock_acquired' = [lock_acquired EXCEPT ![c] = FALSE]
    /\ cpc' = [cpc EXCEPT ![c] = "idle"]
    /\ UNCHANGED process_lock_file
    /\ ClientFrame

\* pause_if_processing, wrapper: the function is called once
\* should_pause_execution returns False; until then the wrapper sleeps
wrapper_check(c) ==
    /\ cpc[c] = "idle"
    /\ IF should_pause_execution(c)
       THEN UNCHANGED cpc
       ELSE cpc' = [cpc EXCEPT ![c] = "func"]
    /\ UNCHANGED <<process_lock_file, lock_acquired>>
    /\ ClientFrame

\* pause_if_processing, wrapper: the function returns
wrapper_return(c) ==
    /\ cpc[c] = "func"
    /\ cpc' = [cpc EXCEPT ![c] = "idle"]
    /\ UNCHANGED <<process_lock_file, lock_acquired>>
    /\ ClientFrame

----------------------------------------------------------------------------
(* The system *)

\* main from the first lock write to the exit
LoopStep(p) ==
    \/ StartupExists(p) \/ Acquire(p) \/ Load(p)
    \/ IdleExists(p) \/ IdleRead(p) \/ IdleRemove(p) \/ IdleReset(p)
    \/ ReassertExists(p) \/ ReassertWrite(p) \/ Select(p) \/ Gather(p)
    \/ Finally(p) \/ ExitExists(p) \/ ExitRead(p) \/ ExitRemove(p) \/ ProcessEnd(p)

\* the steps of the tasks other than the evaluator's and the feed's
GroupStep(p) ==
    \/ WatcherPoll(p)
    \/ TaskCancelled(p)
    \/ RestartExists(p) \/ RestartRemove(p) \/ RestartPopen(p)

\* the steps of the tasks that take no input from the network
TaskStep(p) == EvalTick(p) \/ GroupStep(p)

ScannerStep ==
    \/ ScannerExists \/ ScannerAge \/ ScannerRemove \/ ScannerCycle \/ ScannerFinally

\* the pid of the first process started
FirstPid == CHOOSE p \in Procs : \A q \in Procs : p <= q

----------------------------------------------------------------------------
(* The queue does not change: one eligible row, written before anything    *)
(* starts. Of the evaluator only the tick that closes the epoch is kept.   *)

\* a row load_token_from_csv accepts
FirstRow == CHOOSE r \in Rows : Eligible(r)

HoldInit == InitWith(<<FirstRow>>)

\* main up to the epoch, and from the end of the epoch to the exit
StraightStep(p) ==
    \/ StartupExists(p) \/ Acquire(p) \/ Load(p) \/ ReassertExists(p) \/ Select(p)
    \/ Finally(p) \/ ExitExists(p) \/ ExitRead(p) \/ ExitRemove(p) \/ ProcessEnd(p)

\* the steps of one process while the queue does not change
HoldStep(p) ==
    \/ StraightStep(p) \/ ReassertWrite(p) \/ GroupStep(p) \/ EvalCloses(p)

\* the lock protocol between two Monitoring.py processes, the scanner and
\* the CSV watchdog
LockSpec ==
    /\ HoldInit
    /\ [][\/ \E d \in LockDelays : Advance(d)
          \/ OnModified
          \/ \E p \in Procs : ScannerStart(p)
          \/ ScannerStep
          \/ \E p \in Procs : StartupRemove(p) \/ HoldStep(p)]_vars

\* the lock protocol between the scanner and its Monitoring.py child, which
\* can crash
HoldSpec ==
    /\ HoldInit
    /\ [][\/ \E d \in LockDelays : Advance(d)
          \/ ScannerStart(FirstPid)
          \/ ScannerStep
          \/ HoldStep(FirstPid)
          \/ Crash(FirstPid)]_vars

\* what the schedulers guarantee: the scanner's loop goes on, the main
\* coroutine runs when it is ready, a requested cancellation is delivered and
\* restart_sniperx_v2 runs to its end. Nothing makes the evaluator close the
\* epoch, the clock advance or the process crash.
FairHoldSpec ==
    /\ HoldSpec
    /\ WF_vars(ScannerStart(FirstPid))
    /\ WF_vars(ScannerStep)
    /\ WF_vars(StraightStep(FirstPid) \/ ReassertWrite(FirstPid))
    /\ WF_vars(TaskCancelled(FirstPid))
    /\ WF_vars(RestartExists(FirstPid) \/ RestartRemove(FirstPid) \/ RestartPopen(FirstPid))

----------------------------------------------------------------------------
(* Two Monitoring.py processes, one started by the CSV watchdog and one by *)
(* the scanner, with interrupts: SIGINT can reach a process whenever its   *)
(* event loop waits. The clock stands still and the scanner stays at the   *)
(* top of its loop.                                                        *)

\* the main coroutine of every process runs when it is ready, and a
\* requested cancellation is delivered
ShutdownSpec ==
    /\ HoldInit
    /\ [][\/ OnModified
          \/ \E p \in Procs : ScannerStart(p)
          \/ \E p \in Procs : StartupRemove(p) \/ HoldStep(p) \/ Interrupt(p)]_vars
    /\ \A p \in Procs :
        /\ WF_vars(StartupRemove(p) \/ StraightStep(p) \/ ReassertWrite(p))
        /\ WF_vars(TaskCancelled(p))

----------------------------------------------------------------------------
(* The supervisor: one process on a queue that changes, with a silent feed *)
(* and a Dexscreener that quotes one price or none                         *)

EpochSpec ==
    /\ Init
    /\ [][\/ \E d \in EpochDelays : Advance(d)
          \/ QueueEdit
          \/ ScannerStart(FirstPid)
          \/ LoopStep(FirstPid)
          \/ TaskStep(FirstPid)
          \/ EvalOracle(FirstPid, FlatPrices)]_vars

----------------------------------------------------------------------------
(* The supervisor with a feed: one process on a queue that changes, whose  *)
(* feed delivers trades of every mint, while the clock stands still: no    *)
(* epoch closes with an Outcome                                            *)

SwitchSpec ==
    /\ Init
    /\ [][\/ QueueEdit
          \/ ScannerStart(FirstPid)
          \/ LoopStep(FirstPid)
          \/ EvalTick(FirstPid) \/ WatcherPoll(FirstPid) \/ TaskCancelled(FirstPid)
          \/ FeedFrame(FirstPid)]_vars

----------------------------------------------------------------------------
(* The evaluator: one process on a queue that does not change, with every  *)
(* trade and every Dexscreener answer of the bounds                        *)

EvalSpec ==
    /\ HoldInit
    /\ [][\/ \E d \in EpochDelays : Advance(d)
          \/ ScannerStart(FirstPid)
          \/ StraightStep(FirstPid)
          \/ TaskStep(FirstPid)
          \/ FeedFrame(FirstPid)
          \/ EvalOracle(FirstPid, OraclePrices)]_vars

----------------------------------------------------------------------------
(* The evaluator under other settings of lines 131-132: one process, its   *)
(* prices taken from Dexscreener, the two thresholds drawn from            *)
(* ThresholdPercents, so that they overlap in some configurations          *)

ThresholdPercents == {95, 110}

ConfigSpec ==
    /\ \E tp \in ThresholdPercents, sl \in ThresholdPercents :
            InitConfigured(<<FirstRow>>, tp, sl)
    /\ [][\/ \E d \in EpochDelays : Advance(d)
          \/ ScannerStart(FirstPid)
          \/ StraightStep(FirstPid)
          \/ TaskStep(FirstPid)
          \/ EvalOracle(FirstPid, OraclePrices)]_vars

----------------------------------------------------------------------------
(* The feed: one process on a queue that does not change, with every frame *)
(* and every failure of the connection of the bounds; a sleeping listener  *)
(* is scheduled once its delay is over                                     *)

FeedSpec ==
    /\ HoldInit
    /\ [][\/ \E d \in EpochDelays : Advance(d)
          \/ ScannerStart(FirstPid)
          \/ StraightStep(FirstPid)
          \/ TaskStep(FirstPid)
          \/ EvalOracle(FirstPid, FlatPrices)
          \/ FeedFrame(FirstPid)
          \/ FeedMalformed(FirstPid)
          \/ FeedClosed(FirstPid)
          \/ FeedReconnect(FirstPid)]_vars
    /\ WF_vars(FeedReconnect(FirstPid))

----------------------------------------------------------------------------
(* The buffer: one process whose feed delivers a stream of more trades     *)
(* than the buffer holds, while the evaluator ticks; a request to          *)
(* Dexscreener made before the first trade stays unanswered                *)

BufferSpec ==
    /\ \E q \in {<<FirstRow>>} : InitWith(q) /\ scriptExists = TRUE
    /\ [][\/ ScannerStart(FirstPid)
          \/ StartupExists(FirstPid) \/ Acquire(FirstPid) \/ Load(FirstPid)
          \/ ReassertExists(FirstPid) \/ Select(FirstPid)
          \/ EvalTick(FirstPid)
          \/ FeedStream(FirstPid)]_vars

----------------------------------------------------------------------------
(* The selector: one process started on each file of up to two rows of any *)
(* shape                                                                   *)

SelectorSpec ==
    /\ \E q \in {<<>>} \cup {<<r>> : r \in CsvRows}
                       \cup {<<r, t>> : r \in CsvRows, t \in CsvRows} : InitWith(q)
    /\ [][\/ ScannerStart(FirstPid)
          \/ StartupExists(FirstPid) \/ Acquire(FirstPid) \/ Load(FirstPid)
          \/ IdleExists(FirstPid) \/ IdleRead(FirstPid) \/ IdleRemove(FirstPid)
          \/ IdleReset(FirstPid)
          \/ ReassertExists(FirstPid) \/ Select(FirstPid)]_vars

----------------------------------------------------------------------------
(* Client scripts on process.lock: each acquires and releases the global   *)
(* ProcessLock and calls functions wrapped with pause_if_processing        *)

ProcessLockSpec ==
    /\ Init
    /\ [][\E c \in Clients :
            \/ acquire_open(c) \/ acquire_write(c)
            \/ release_exists(c) \/ release_read(c) \/ release_unlink(c) \/ release_end(c)
            \/ wrapper_check(c) \/ wrapper_return(c)]_vars

----------------------------------------------------------------------------
(* One Monitoring.py process on a queue that does not change, next to      *)
(* client scripts that call functions wrapped with pause_if_processing     *)

PauseSpec ==
    /\ HoldInit
    /\ [][\/ ScannerStart(FirstPid)
          \/ StraightStep(FirstPid) \/ GroupStep(FirstPid) \/ EvalCloses(FirstPid)
          \/ \E c \in Clients : wrapper_check(c) \/ wrapper_return(c)]_vars

----------------------------------------------------------------------------
(* Mutual exclusion between the monitor and the scanner *)

\* the scanner is inside main_token_processing_loop
ScannerActive == spc = "cycle"

----------------------------------------------------------------------------
(* A young lock record *)

\* the lock record exists, was written by process a and is not older than
\* the TTL
YoungLockOf(a) ==
    /\ lock # NoLock
    /\ lock.pid = a
    /\ now - lock.mtime <= LOCK_MAX_AGE_SECONDS

\* the scanner starts a processing cycle in this step
CycleStarts == spc # "cycle" /\ spc' = "cycle"

\* process b, which is starting up, changes the lock record in this step
TakesOver(b) ==
    /\ mpc[b] \in {"startup", "startup_remove", "acquire"}
    /\ lock' # lock
    /\ lock' = NoLock \/ lock'.pid = b

\* C2 as stated: while a lock record younger than the TTL written by process
\* a exists, the scanner does not start a processing cycle, and no other
\* monitoring process that starts up takes over the record or starts an epoch
C2_YoungLockExcludesAll ==
    [][\A a \in Procs :
        YoungLockOf(a) =>
            /\ ~CycleStarts
            /\ \A b \in Procs \ {a} : ~TakesOver(b) /\ ~(mpc[b] = "select" /\ mpc'[b] = "gather" /\ HasTasks(b)')]_vars

\* C2 as amended: the scanner starts a processing cycle only in a pass that
\* found no lock record, or in one that measured the record's age above the
\* TTL; a pass that measures an age of at most the TTL goes back to the check
C2_ScannerPausesOnYoungLock ==
    [][/\ CycleStarts =>
            \/ spc = "check" /\ lock = NoLock
            \/ spc = "remove" /\ lock_file_age > LOCK_MAX_AGE_SECONDS
       /\ (spc = "age" /\ spc' # "age" /\ lock # NoLock
             /\ now - lock.mtime <= LOCK_MAX_AGE_SECONDS) => spc' = "check"]_vars

\* the scanner measured an age of exactly the TTL on another process's
\* record and went back to the check
C2_Witness ==
    /\ spc = "check"
    /\ lock_file_age = LOCK_MAX_AGE_SECONDS
    /\ \E a \in Procs : YoungLockOf(a) /\ now - lock.mtime = LOCK_MAX_AGE_SECONDS

----------------------------------------------------------------------------
(* The end of an epoch *)

\* the queue has a row for the mint
Queued(mint) == \E i \in 1..Len(queue) : queue[i].addr = mint

\* C3: when the Evaluator has closed an epoch for target T with an Outcome
\* (the outcome record is in trades.csv), every queue row for T is removed
\* before the next target selection, at the latest when the process that
\* ran the epoch has left its main loop
C3_TargetRemovedAfterOutcome ==
    \A i \in 1..Len(trades_csv) :
        (mpc[FirstPid] \in {"exit_exists", "exit_read", "exit_remove", "return", "exited"}) => ~Queued(trades_csv[i].mint_address)

\* gather has returned and the Watcher's RestartRequired is its first result
RestartSignalled(p) ==
    /\ mpc[p] = "gather"
    /\ rpc[p] = "none"
    /\ AllDone(p)
    /\ Classify(g_current_tasks[p]) = "restart_required"

\* C4: after the Watcher signals RestartRequested the supervisor clears the
\* epoch state, leaves the queue unchanged and returns to target selection
\* in the same process
C4_RestartReturnsToSelection ==
    [][\A p \in Procs :
        (RestartSignalled(p) /\ mpc'[p] # mpc[p]) =>
            /\ mpc'[p] = "load"
            /\ queue' = queue
            /\ g_current_tasks'[p] = NoTasks
            /\ g_current_mint_address'[p] = NoMint]_vars

\* the Evaluator has ended with an unexpected exception and the Feed and the
\* Watcher are still running
EvaluatorFailed(p) ==
    /\ mpc[p] = "gather"
    /\ g_current_tasks[p]["trader"] = "error"
    /\ g_current_tasks[p]["listener"] = "run"
    /\ g_current_tasks[p]["checker"] = "run"

\* C5: when the Evaluator fails with an unexpected exception while the Feed
\* and the Watcher are still running, the supervisor eventually cancels the
\* remaining tasks and proceeds, with no change of the queue
C5_FailureEndsEpoch ==
    \A p \in Procs : EvaluatorFailed(p) ~> (AllDone(p) \/ mpc[p] # "gather")

----------------------------------------------------------------------------
(* Removal and creation of the lock record by a monitoring process *)

\* process p ends one of its three removals in this step: the idle release,
\* the release on exit, or the removal in restart_sniperx_v2
RemovalBy(p) ==
    \/ mpc[p] = "idle_remove" /\ mpc'[p] = "idle_reset"
    \/ mpc[p] = "exit_remove" /\ mpc'[p] = "return"
    \/ rpc[p] = "restart_remove" /\ rpc'[p] = "restart_popen"

\* C6: a monitoring process removes the lock record only when the record
\* names that process as owner at the moment of removal
C6_RemovesOnlyOwnRecord ==
    [][\A p \in Procs :
        (RemovalBy(p) /\ lock # NoLock /\ lock' = NoLock) => lock.pid = p]_vars

\* process p writes the lock record in this step: the acquisition at the
\* start of main, or the re-assertion at the top of the loop
AcquisitionBy(p) ==
    \/ mpc[p] = "acquire" /\ mpc'[p] = "load"
    \/ mpc[p] = "reassert_write" /\ mpc'[p] = "select"

\* C7: the acquisition is a create-if-absent: it succeeds only if no lock
\* record exists at that instant, so it never overwrites the record of
\* another owner
C7_AcquireOnlyIfAbsent ==
    [][\A p \in Procs : AcquisitionBy(p) => lock = NoLock]_vars

----------------------------------------------------------------------------
(* The lock record and a holder that does not look after it *)

\* process p has crashed and the lock record still names it
CrashedHolder(p) == mpc[p] = "crashed" /\ lock # NoLock /\ lock.pid = p

LockLostInEpoch(p) ==
    /\ EpochRunning(p)
    /\ rpc[p] = "none"
    /\ lock_created_by_this_instance[p]
    /\ lock = NoLock

\* C9: if the lock record disappears while the monitoring process considers
\* itself the holder and runs an epoch, the process, unless it is killed,
\* eventually recreates the record naming itself as owner
C9_LostLockIsRecreated ==
    \A p \in Procs :
        LockLostInEpoch(p) ~> (mpc[p] = "crashed" \/ (lock # NoLock /\ lock.pid = p))

----------------------------------------------------------------------------
(* The buy signal *)

\* a tick of the evaluator runs its lifecycle checks in this step, on the
\* price left in usd_price_per_token
TickChecks(p) ==
    \/ /\ EvalTick(p)
       /\ g_current_mint_address[p] = current_task_mint_address[p]
       /\ g_current_tasks'[p]["trader"] # "oracle"
    \/ EvalOracle(p, OraclePrices)

\* the tick starts with a baseline and no buy signal, and has a price
AwaitsSignal(p) ==
    /\ g_baseline_price_usd[p] # NoPrice
    /\ ~g_buy_signal_detected[p]
    /\ usd_price_per_token'[p] # NoPrice

\* the tick has raised the buy signal at its price
SignalSet(p) ==
    /\ g_buy_signal_detected'[p]
    /\ g_buy_price_usd'[p] = usd_price_per_token'[p]
    /\ g_trade_status'[p] = "bought"

\* C10 as stated: with a baseline B and no prior buy signal, a tick with a
\* price P >= B * 1.01, P = B * 1.01 included, sets buySignalDetected, sets
\* buyPrice = P and moves the epoch to Holding
C10_SignalAtOrAboveThreshold ==
    [][\A p \in Procs :
        (/\ TickChecks(p)
         /\ AwaitsSignal(p)
         /\ 100 * usd_price_per_token'[p]
              >= BUY_SIGNAL_PRICE_INCREASE_PERCENT * g_baseline_price_usd[p])
        => SignalSet(p)]_vars

\* C10 as amended: with a baseline B and no prior buy signal, a tick with a
\* price P > B * 1.01 sets buySignalDetected, sets buyPrice = P and moves the
\* epoch to Holding; a tick with P = B * 1.01 leaves buySignalDetected unset
C10_SignalAboveThreshold ==
    [][\A p \in Procs :
        (TickChecks(p) /\ AwaitsSignal(p)) =>
            /\ (100 * usd_price_per_token'[p]
                  > BUY_SIGNAL_PRICE_INCREASE_PERCENT * g_baseline_price_usd[p])
                => SignalSet(p)
            /\ (100 * usd_price_per_token'[p]
                  = BUY_SIGNAL_PRICE_INCREASE_PERCENT * g_baseline_price_usd[p])
                => ~g_buy_signal_detected'[p]]_vars

\* a tick has raised the buy signal at a price above the threshold
C10_Witness ==
    /\ g_buy_signal_detected[FirstPid]
    /\ g_trade_status[FirstPid] = "bought"
    /\ g_buy_price_usd[FirstPid] = usd_price_per_token[FirstPid]
    /\ 100 * g_buy_price_usd[FirstPid]
         > BUY_SIGNAL_PRICE_INCREASE_PERCENT * g_baseline_price_usd[FirstPid]

----------------------------------------------------------------------------
(* Take profit and stop loss *)

\* the tick starts in Holding, with the buy signal and the buy price set,
\* and has a price
Holding(p) ==
    /\ g_buy_signal_detected[p]
    /\ g_buy_price_usd[p] # NoPrice
    /\ usd_price_per_token'[p] # NoPrice

\* the row log_trade_result writes for the epoch of p
OutcomeRow(p, reason, buy, sell) ==
    [mint_address |-> current_task_mint_address[p], reason |-> reason,
     buy_price |-> buy, sell_price |-> sell]

\* the write of the outcome log fails in this step, and the tick ends with
\* that error
LogFails(p) ==
    /\ trades_csv' = trades_csv
    /\ g_current_tasks'[p]["trader"] = "error"

\* the tick ends the evaluator with this outcome: the row is appended to
\* trades.csv, unless the log cannot be written
ClosesWith(p, reason, buy, sell) ==
    \/ trades_csv' = Append(trades_csv, OutcomeRow(p, reason, buy, sell))
    \/ LogFails(p)

\* no outcome with one of these reasons is written in this step
ClosesWithNoneOf(reasons) ==
    \/ trades_csv' = trades_csv
    \/ /\ Len(trades_csv') = Len(trades_csv) + 1
       /\ trades_csv'[Len(trades_csv')].reason \notin reasons

\* C11: in Holding with buy price X, a tick with a price P >= X * 1.10
\* closes the epoch with "Take profit" and a tick with P <= X * 0.95 closes
\* it with "Stop loss", the outcome carrying buy price X and sell price P; a
\* tick with X * 0.95 < P < X * 1.10 closes with neither
C11_TakeProfitAndStopLoss ==
    [][\A p \in Procs :
        (TickChecks(p) /\ Holding(p)) =>
            LET X == g_buy_price_usd[p]
                P == usd_price_per_token'[p]
            IN  /\ (100 * P >= TAKE_PROFIT_THRESHOLD_PERCENT * X)
                    => ClosesWith(p, "Take profit", X, P)
                /\ (100 * P <= STOP_LOSS_THRESHOLD_PERCENT * X)
                    => ClosesWith(p, "Stop loss", X, P)
                /\ (/\ 100 * P > STOP_LOSS_THRESHOLD_PERCENT * X
                    /\ 100 * P < TAKE_PROFIT_THRESHOLD_PERCENT * X)
                    => ClosesWithNoneOf({"Take profit", "Stop loss"})]_vars

\* an epoch was closed with "Take profit" at a sell price of exactly 1.10
\* times the buy price
C11_Witness ==
    \E i \in 1..Len(trades_csv) :
        /\ trades_csv[i].reason = "Take profit"
        /\ trades_csv[i].buy_price # NoPrice
        /\ 100 * trades_csv[i].sell_price
             = TAKE_PROFIT_THRESHOLD_PERCENT * trades_csv[i].buy_price

----------------------------------------------------------------------------
(* The no-buy-signal timeout *)

\* the time the tick in this step took from the clock when it began
TickTime(p) ==
    IF g_current_tasks[p]["trader"] = "oracle" THEN current_time[p] ELSE now

\* the seconds between the start of the epoch and the tick in this step
Elapsed(p) == TickTime(p) - g_token_start_time[p]

\* the tick ends the evaluator with this reason: a row with the reason is
\* appended to trades.csv, unless the log cannot be written
ClosesFor(p, reason) ==
    \/ /\ Len(trades_csv') = Len(trades_csv) + 1
       /\ trades_csv'[Len(trades_csv')].reason = reason
       /\ trades_csv'[Len(trades_csv')].mint_address = current_task_mint_address[p]
    \/ LogFails(p)

\* the tick ends in the sleep: no outcome, and the evaluator runs on
\* with the buy signal as it was
TickGoesOn(p) ==
    /\ trades_csv' = trades_csv
    /\ g_current_tasks'[p]["trader"] = "run"
    /\ g_buy_signal_detected'[p] = g_buy_signal_detected[p]

\* C12 as stated: if 180 s have elapsed since the start of the epoch and no
\* buy signal has been detected, the next tick closes the epoch with "No buy
\* signal timeout", whatever its price and whether or not a baseline was
\* ever obtained
C12_TimeoutWhateverThePrice ==
    [][\A p \in Procs :
        (/\ TickChecks(p)
         /\ ~g_buy_signal_detected[p]
         /\ Elapsed(p) >= NO_BUY_SIGNAL_TIMEOUT_SECONDS)
        => ClosesFor(p, "No buy signal timeout")]_vars

\* C12 as amended: on a tick with no buy signal detected before, more than
\* 180 s after the start of the epoch, the epoch closes with "No buy signal
\* timeout", with the price of the tick as sell price, if the tick has a
\* baseline and its price is absent or at most baseline * 1.01; without a
\* baseline the tick closes nothing; at 180 s or less no tick times out
C12_TimeoutWithBaseline ==
    [][\A p \in Procs :
        (TickChecks(p) /\ ~g_buy_signal_detected[p]) =>
            LET B == g_baseline_price_usd'[p]
                P == usd_price_per_token'[p]
            IN  /\ (/\ Elapsed(p) > NO_BUY_SIGNAL_TIMEOUT_SECONDS
                    /\ B # NoPrice
                    /\ P = NoPrice \/ 100 * P <= BUY_SIGNAL_PRICE_INCREASE_PERCENT * B)
                    => ClosesWith(p, "No buy signal timeout", NoPrice, P)
                /\ (Elapsed(p) > NO_BUY_SIGNAL_TIMEOUT_SECONDS /\ B = NoPrice)
                    => TickGoesOn(p)
                /\ (Elapsed(p) <= NO_BUY_SIGNAL_TIMEOUT_SECONDS)
                    => ClosesWithNoneOf({"No buy signal timeout"})]_vars

\* an epoch was closed with "No buy signal timeout" at a tick that had a
\* price, which became the sell price
C12_Witness ==
    \E i \in 1..Len(trades_csv) :
        /\ trades_csv[i].reason = "No buy signal timeout"
        /\ trades_csv[i].sell_price # NoPrice
        /\ trades_csv[i].sell_price = usd_price_per_token[FirstPid]
        /\ g_baseline_price_usd[FirstPid] # NoPrice
        /\ ~g_buy_signal_detected[FirstPid]

----------------------------------------------------------------------------
(* Stagnation *)

\* the stagnation timer is set when the tick begins, and the price of the
\* tick is below baseline * 0.80 again
StaysBelow(p) ==
    /\ g_stagnation_timer_start[p] # NoTime
    /\ g_baseline_price_usd[p] # NoPrice
    /\ usd_price_per_token'[p] # NoPrice
    /\ 100 * usd_price_per_token'[p]
         < STAGNATION_PRICE_THRESHOLD_PERCENT * g_baseline_price_usd[p]

\* C13: if the price is below baseline * 0.80 on every tick, so that the
\* stagnation timer has stayed set for 180 s or more, the tick closes the
\* epoch with "Stagnation timeout" and with no other reason
C13_StagnationCloses ==
    [][\A p \in Procs :
        (/\ TickChecks(p)
         /\ StaysBelow(p)
         /\ (TickTime(p) - g_stagnation_timer_start[p]) >= STAGNATION_TIMEOUT_SECONDS)
        => ClosesFor(p, "Stagnation timeout")]_vars

----------------------------------------------------------------------------
(* Stagnation without price data *)

\* the tick begins with a baseline and the stagnation timer unset, and has
\* no price
NoData(p) ==
    /\ g_baseline_price_usd[p] # NoPrice
    /\ g_stagnation_timer_start[p] = NoTime
    /\ usd_price_per_token'[p] = NoPrice

\* C14 as stated: with a baseline set, a tick with no price, the stagnation
\* timer unset and more than 180 s elapsed since the start of the epoch
\* closes the epoch with "Stagnation timeout - no price data", before the
\* buy signal as well as after it
C14_NoDataClosesInAnyState ==
    [][\A p \in Procs :
        (/\ TickChecks(p)
         /\ NoData(p)
         /\ Elapsed(p) > STAGNATION_TIMEOUT_SECONDS)
        => ClosesFor(p, "Stagnation timeout - no price data")]_vars

\* C14 as amended: with a baseline set, a tick with no price, the stagnation
\* timer unset and more than 180 s elapsed since the start of the epoch
\* closes the epoch with "Stagnation timeout - no price data", without
\* prices, if the buy signal was detected before, and with "No buy signal
\* timeout" if it was not; at 180 s or less such a tick closes nothing
C14_NoDataClosesInHolding ==
    [][\A p \in Procs :
        (TickChecks(p) /\ NoData(p)) =>
            /\ (Elapsed(p) > STAGNATION_TIMEOUT_SECONDS /\ g_buy_signal_detected[p])
                => ClosesWith(p, "Stagnation timeout - no price data", NoPrice, NoPrice)
            /\ (Elapsed(p) > STAGNATION_TIMEOUT_SECONDS /\ ~g_buy_signal_detected[p])
                => ClosesWith(p, "No buy signal timeout", NoPrice, NoPrice)
            /\ (Elapsed(p) <= STAGNATION_TIMEOUT_SECONDS) => TickGoesOn(p)]_vars

\* an epoch in Holding was closed with "Stagnation timeout - no price data"
C14_Witness ==
    /\ g_buy_signal_detected[FirstPid]
    /\ g_stagnation_timer_start[FirstPid] = NoTime
    /\ usd_price_per_token[FirstPid] = NoPrice
    /\ \E i \in 1..Len(trades_csv) :
        /\ trades_csv[i].reason = "Stagnation timeout - no price data"
        /\ trades_csv[i].buy_price = NoPrice
        /\ trades_csv[i].sell_price = NoPrice

----------------------------------------------------------------------------
(* The buy signal on the tick of the timeout *)

\* C15: on a tick more than 180 s after the start of the epoch, with no buy
\* signal detected before and a price above baseline * 1.01, the evaluator
\* records the buy signal and moves to Holding; the tick does not close the
\* epoch with "No buy signal timeout"
C15_SignalBeforeTimeout ==
    [][\A p \in Procs :
        (/\ TickChecks(p)
         /\ AwaitsSignal(p)
         /\ Elapsed(p) > NO_BUY_SIGNAL_TIMEOUT_SECONDS
         /\ 100 * usd_price_per_token'[p]
              > BUY_SIGNAL_PRICE_INCREASE_PERCENT * g_baseline_price_usd[p])
        => /\ SignalSet(p)
           /\ trades_csv' = trades_csv
           /\ g_current_tasks'[p]["trader"] = "run"]_vars

\* the feed has been silent, Dexscreener was last asked more than 180 s
\* after the start of the epoch, within the same second, and the price it
\* gave then raised the buy signal
C15_Witness ==
    /\ g_latest_trade_data[FirstPid] = <<>>
    /\ g_buy_signal_detected[FirstPid]
    /\ g_buy_price_usd[FirstPid] = usd_price_per_token[FirstPid]
    /\ g_buy_price_usd[FirstPid] # g_baseline_price_usd[FirstPid]
    /\ g_last_dex_price_fetch_time[FirstPid] - g_token_start_time[FirstPid]
         > NO_BUY_SIGNAL_TIMEOUT_SECONDS
    /\ now = g_last_dex_price_fetch_time[FirstPid]
    /\ advances = 2
    /\ trades_csv = <<>>

----------------------------------------------------------------------------
(* The poll of the watcher *)

\* the watcher of the running epoch of p polls the queue in this step
PollsInEpoch(p) ==
    /\ WatcherPoll(p)
    /\ mpc[p] = "gather"
    /\ g_current_mint_address[p] = current_task_mint_address[p]

\* cancellation of the feed and of the evaluator is requested in this step,
\* unless the task has ended already
OthersCancelled(p) ==
    \A t \in {"listener", "trader"} :
        \/ g_current_tasks'[p][t] = "cancel"
        \/ Done(p, t) /\ g_current_tasks'[p][t] = g_current_tasks[p][t]

\* C16: at a poll of the watcher during a running epoch, if the queue's
\* eligible target differs from the epoch's target, or the queue has none,
\* the same poll cancels the feed and the evaluator and raises
\* RestartRequired; if the target is the same, no task is cancelled and
\* nothing is raised
C16_PollCancelsOnChange ==
    [][\A p \in Procs :
        PollsInEpoch(p) =>
            IF (load_token_from_csv(queue) # current_task_mint_address[p])
            THEN /\ OthersCancelled(p)
                 /\ g_current_tasks'[p]["checker"] = "restart"
            ELSE g_current_tasks'[p] = g_current_tasks[p]]_vars

\* the watcher has raised RestartRequired on an emptied queue and the
\* cancellation of the feed and of the evaluator is pending
C16_Witness ==
    /\ mpc[FirstPid] = "gather"
    /\ load_token_from_csv(queue) = NoMint
    /\ current_task_mint_address[FirstPid] # NoMint
    /\ g_current_tasks[FirstPid]["checker"] = "restart"
    /\ g_current_tasks[FirstPid]["listener"] = "cancel"
    /\ g_current_tasks[FirstPid]["trader"] = "cancel"

----------------------------------------------------------------------------
(* The evaluator after the watcher has cancelled it *)

\* the watcher of p has raised RestartRequired and the evaluator got its
\* cancellation request, delivered or not yet
CancelRequested(p) ==
    /\ g_current_tasks[p]["checker"] = "restart"
    /\ g_current_tasks[p]["trader"] \in {"cancel", "cancelled"}

\* the globals the evaluator writes, for the epoch of p
EvaluatorState(p) ==
    <<g_baseline_price_usd[p], g_trade_status[p], g_buy_price_usd[p],
      g_buy_signal_detected[p], g_stagnation_timer_start[p],
      g_last_dex_price_fetch_time[p], g_token_start_time[p]>>

\* the evaluator of the epoch of p has emitted an outcome, or is inside
\* TokenProcessingComplete.__init__ doing so
OutcomeEmitted(p) ==
    \/ rpc[p] # "none"
    \/ g_current_tasks[p]["trader"] \in {"sysexit", "complete"}

\* C17: once the watcher has requested the cancellation of the evaluator,
\* the evaluator changes no epoch state and writes no outcome record, and no
\* epoch has both an outcome of the evaluator and a RestartRequired of the
\* watcher
C17_CancelledEvaluatorIsSilent ==
    /\ [](\A p \in Procs :
            ~(OutcomeEmitted(p) /\ g_current_tasks[p]["checker"] = "restart"))
    /\ [][\A p \in Procs :
            CancelRequested(p) =>
                /\ EvaluatorState(p)' = EvaluatorState(p)
                /\ trades_csv' = trades_csv
                /\ rpc'[p] = "none"
                /\ g_current_tasks'[p]["trader"] \in {"cancel", "cancelled", "none"}]_vars

\* the evaluator had set a baseline, the watcher has raised RestartRequired,
\* and the evaluator has ended by the cancellation without an outcome
C17_Witness ==
    /\ g_current_tasks[FirstPid]["checker"] = "restart"
    /\ g_current_tasks[FirstPid]["trader"] = "cancelled"
    /\ g_baseline_price_usd[FirstPid] # NoPrice
    /\ now - g_token_start_time[FirstPid] > NO_BUY_SIGNAL_TIMEOUT_SECONDS
    /\ trades_csv = <<>>

----------------------------------------------------------------------------
(* One task group per process *)

\* the task exists and has not ended
TaskAlive(p, t) == g_current_tasks[p][t] \in {"run", "oracle", "sleep", "cancel"}

\* main creates the three tasks of an epoch in this step
TasksCreated(p) ==
    /\ mpc[p] = "select"
    /\ mpc'[p] = "gather"
    /\ g_current_tasks'[p] = [t \in TaskNames |-> "run"]
    /\ g_current_tasks'[p] # g_current_tasks[p]

\* C18: a monitoring process has at most one epoch task group at any time:
\* tasks are alive only while main is at the selection, awaits them in
\* gather or cancels them on its way out, and the tasks of a new epoch are
\* created only when no task of the previous epoch is alive
C18_OneTaskGroup ==
    /\ [](\A p \in Procs :
            (\E t \in TaskNames : TaskAlive(p, t))
                => mpc[p] \in {"select", "gather", "finally"})
    /\ [][\A p \in Procs :
            TasksCreated(p) => \A t \in TaskNames : ~TaskAlive(p, t)]_vars

\* the tasks of a second epoch of the process have just been created:
\* Dexscreener was last asked before this epoch started
C18_Witness ==
    /\ mpc[FirstPid] = "gather"
    /\ g_current_tasks[FirstPid] = [t \in TaskNames |-> "run"]
    /\ g_last_dex_price_fetch_time[FirstPid] > 0
    /\ g_last_dex_price_fetch_time[FirstPid] < g_token_start_time[FirstPid]
    /\ g_latest_trade_data[FirstPid] = <<>>

----------------------------------------------------------------------------
(* The state of a fresh epoch *)

\* C19: at the moment the tasks of a new epoch are created, the baseline,
\* the buy price and the stagnation timer are unset, no buy signal is
\* detected, the status is "monitoring", the trade buffer is empty and the
\* start time is the current time: nothing of the previous epoch carries over
C19_FreshEpochState ==
    [][\A p \in Procs :
        TasksCreated(p) =>
            /\ g_baseline_price_usd'[p] = NoPrice
            /\ g_buy_price_usd'[p] = NoPrice
            /\ g_stagnation_timer_start'[p] = NoTime
            /\ ~g_buy_signal_detected'[p]
            /\ g_trade_status'[p] = "monitoring"
            /\ g_latest_trade_data'[p] = <<>>
            /\ g_token_start_time'[p] = now]_vars

\* a second epoch of the process has started, later than the first, whose
\* evaluator had asked Dexscreener, and its state is fresh
C19_Witness ==
    /\ EpochRunning(FirstPid)
    /\ g_last_dex_price_fetch_time[FirstPid] > 0
    /\ g_last_dex_price_fetch_time[FirstPid] < g_token_start_time[FirstPid]
    /\ g_token_start_time[FirstPid] = now
    /\ g_baseline_price_usd[FirstPid] = NoPrice
    /\ g_stagnation_timer_start[FirstPid] = NoTime
    /\ ~g_buy_signal_detected[FirstPid]

----------------------------------------------------------------------------
(* The epoch that ends by a failure *)

\* every task of the epoch of p has ended and the first result that is not
\* a cancellation is the unexpected exception of the evaluator
EndsByFailure(p) ==
    /\ mpc[p] = "gather"
    /\ rpc[p] = "none"
    /\ AllDone(p)
    /\ g_current_tasks[p]["listener"] \in {"cancelled", "returned"}
    /\ g_current_tasks[p]["trader"] = "error"

\* C20: when an epoch ends by the unexpected failure of a task, the queue is
\* left as it is and main goes on with its next cycle in the same process;
\* that cycle, like every cycle, takes the last eligible row of the queue,
\* so the same target is selected again if it still is that row
C20_FailureKeepsTarget ==
    [][\A p \in Procs :
        /\ (EndsByFailure(p) /\ mpc'[p] # mpc[p]) =>
                /\ queue' = queue
                /\ mpc'[p] = "load"
                /\ g_current_tasks'[p] = NoTasks
        /\ (mpc[p] = "load" /\ mpc'[p] # "load") =>
                /\ loaded_mint_address'[p] = load_token_from_csv(queue)
                /\ queue' = queue
        /\ TasksCreated(p) =>
                current_task_mint_address'[p] = loaded_mint_address[p]]_vars

\* an epoch has ended by a failure of its evaluator, which wrote no outcome;
\* main is back at the top of its loop and the row of the epoch's target is
\* still in the queue
C20_Witness ==
    /\ mpc[FirstPid] = "load"
    /\ g_current_tasks[FirstPid] = NoTasks
    /\ current_task_mint_address[FirstPid] # NoMint
    /\ Queued(current_task_mint_address[FirstPid])
    /\ g_baseline_price_usd[FirstPid] # NoPrice
    /\ trades_csv = <<>>

----------------------------------------------------------------------------
(* The supervisor without a target *)

\* C21: while the queue gives no target (it is empty, or has no eligible
\* row), main starts no epoch tasks, removes the lock record if the record
\* names this process, and goes back to read the queue again; it does not
\* leave its loop
C21_IdleWithoutTarget ==
    /\ [](\A p \in Procs :
            mpc[p] = "idle_reset" => (lock = NoLock \/ lock.pid # p))
    /\ [][\A p \in Procs :
            /\ (Load(p) /\ load_token_from_csv(queue) = NoMint)
                    => mpc'[p] = "idle_exists"
            /\ (/\ mpc[p] \in {"idle_exists", "idle_read", "idle_remove", "idle_reset"}
                /\ mpc'[p] # mpc[p])
                    => /\ mpc'[p] \in {"idle_read", "idle_remove", "idle_reset", "load"}
                       /\ \A t \in TaskNames : g_current_tasks'[p][t] # "run"
            /\ (mpc[p] = "idle_exists" /\ mpc'[p] # mpc[p]
                    /\ lock # NoLock /\ lock.pid = p)
                    => mpc'[p] = "idle_read"
            /\ (mpc[p] = "idle_remove" /\ mpc'[p] # mpc[p]
                    /\ lock # NoLock /\ lock.pid = p)
                    => lock' = NoLock
            /\ (mpc[p] = "idle_reset" /\ mpc'[p] # mpc[p])
                    => mpc'[p] = "load" /\ g_current_tasks'[p] = NoTasks]_vars

\* main is back at the top of its loop after an idle pass on a queue whose
\* only row is not eligible: the lock record it wrote is removed and no task
\* exists
C21_Witness ==
    /\ mpc[FirstPid] = "load"
    /\ queue # <<>>
    /\ load_token_from_csv(queue) = NoMint
    /\ loaded_mint_address[FirstPid] = NoMint
    /\ lock_created_by_this_instance[FirstPid]
    /\ lock = NoLock
    /\ g_current_tasks[FirstPid] = NoTasks

----------------------------------------------------------------------------
(* The shutdown on an interrupt *)

\* C22: a monitoring process that got a top-level interrupt cancels every
\* epoch task and reaches the release of the lock only when all of them
\* have ended; its release removes the lock record if and only if the record
\* names this process at the removal, so a record of another owner stays in
\* place; and the process exits
C22_InterruptShutsDown ==
    /\ [](\A p \in sigint :
            mpc[p] \in {"exit_exists", "exit_read", "exit_remove", "return"}
                => \A t \in TaskNames : ~TaskAlive(p, t))
    /\ [][\A p \in sigint :
            (mpc[p] = "exit_remove" /\ mpc'[p] = "return")
                => lock' = IF lock # NoLock /\ lock.pid = p THEN NoLock ELSE lock]_vars
    /\ \A p \in Procs : (p \in sigint) ~> (mpc[p] \in {"exited", "crashed"})

----------------------------------------------------------------------------
(* The stagnation timer *)

\* C23: after a tick that does not close the epoch (it writes no outcome and
\* the evaluator runs on) and had a price
\* P >= baseline * 0.80, the stagnation timer is unset; a tick with
\* P < baseline * 0.80 starts the timer at the time of the tick only if it
\* was unset, and leaves a running timer with its start time; a tick without
\* a price leaves the timer as it was
C23_StagnationTimerFollowsPrice ==
    [][\A p \in Procs :
        TickChecks(p) =>
            LET P == usd_price_per_token'[p]
                B == g_baseline_price_usd'[p]
                T == g_stagnation_timer_start[p]
            IN  /\ (/\ P # NoPrice
                    /\ 100 * P >= STAGNATION_PRICE_THRESHOLD_PERCENT * B
                    /\ trades_csv' = trades_csv
                    /\ g_current_tasks'[p]["trader"] = "run")
                    => g_stagnation_timer_start'[p] = NoTime
                /\ (P # NoPrice /\ 100 * P < STAGNATION_PRICE_THRESHOLD_PERCENT * B)
                    => /\ T # NoTime => g_stagnation_timer_start'[p] = T
                       /\ T = NoTime => g_stagnation_timer_start'[p] \in {NoTime, TickTime(p)}
                       /\ (/\ T = NoTime
                           /\ trades_csv' = trades_csv
                           /\ g_current_tasks'[p]["trader"] = "run")
                            => g_stagnation_timer_start'[p] = TickTime(p)
                /\ (P = NoPrice) => g_stagnation_timer_start'[p] = T]_vars

\* with the feed silent, a tick later than the start of the epoch got a
\* price below baseline * 0.80 from Dexscreener, started the timer at its
\* time and went on
C23_Witness ==
    /\ g_latest_trade_data[FirstPid] = <<>>
    /\ g_current_tasks[FirstPid]["trader"] = "run"
    /\ g_baseline_price_usd[FirstPid] # NoPrice
    /\ usd_price_per_token[FirstPid] # NoPrice
    /\ 100 * usd_price_per_token[FirstPid]
         < STAGNATION_PRICE_THRESHOLD_PERCENT * g_baseline_price_usd[FirstPid]
    /\ g_stagnation_timer_start[FirstPid] = g_last_dex_price_fetch_time[FirstPid]
    /\ g_stagnation_timer_start[FirstPid] > g_token_start_time[FirstPid]

----------------------------------------------------------------------------
(* The pause of the other scripts while a token is processed *)

\* C24: while a Monitoring.py process runs an epoch and the lock record
\* names it, should_pause_execution returns True in every script that is not
\* exempt, and no such script starts a function wrapped with
\* pause_if_processing
C24_ScriptsPauseWhileMonitoring ==
    /\ [](\A p \in Procs, c \in Clients :
            (/\ EpochRunning(p)
             /\ lock # NoLock
             /\ lock.pid = p
             /\ current_script(c) \notin
                    {"monitoring.py", "telegram_manager.py", "wallet_manager.py"})
            => should_pause_execution(c))
    /\ [][\A p \in Procs, c \in Clients :
            (/\ EpochRunning(p)
             /\ lock # NoLock
             /\ lock.pid = p
             /\ current_script(c) \notin
                    {"monitoring.py", "telegram_manager.py", "wallet_manager.py"})
            => ~(cpc[c] # "func" /\ cpc'[c] = "func")]_vars

----------------------------------------------------------------------------
(* Mutual exclusion by ProcessLock *)

\* C25 as stated: among the processes that call acquire and release on
\* process.lock, at most one has lock_acquired = True at any time, and
\* lock_acquired becomes True only in the process that created the file
\* exclusively, when it writes its pid into it
C25_AtMostOneFlag ==
    /\ [](Cardinality({c \in Clients : lock_acquired[c]}) <= 1)
    /\ [][\A c \in Clients :
            (~lock_acquired[c] /\ lock_acquired'[c])
                => cpc[c] = "created" /\ process_lock_file' = c]_vars

\* C25 as amended: at most one process has lock_acquired = True outside the
\* end of a release, and process.lock holds the pid of that process; a
\* process that has unlinked the file in release keeps lock_acquired = True
\* until release clears it, and another process can acquire the lock in
\* between. lock_acquired becomes True only in the process that created the
\* file exclusively, when it writes its pid into it
C25_AtMostOneHolder ==
    /\ [](/\ Cardinality({c \in Clients :
                            lock_acquired[c] /\ cpc[c] # "release_end"}) <= 1
          /\ \A c \in Clients :
                (lock_acquired[c] /\ cpc[c] # "release_end") => process_lock_file = c)
    /\ [][\A c \in Clients :
            (~lock_acquired[c] /\ lock_acquired'[c])
                => cpc[c] = "created" /\ process_lock_file' = c]_vars

\* one process has unlinked the file in release and has not cleared its
\* flag yet, and another process has acquired the lock
C25_Witness ==
    \E c, d \in Clients :
        /\ c # d
        /\ cpc[c] = "release_end"
        /\ lock_acquired[c]
        /\ lock_acquired[d]
        /\ cpc[d] = "idle"
        /\ process_lock_file = d

----------------------------------------------------------------------------
(* The lock record at the start-up of a monitoring process *)

\* C26: a monitoring process that finds a lock record at start-up removes
\* it, whatever its owner and age, before it writes its own record; the
\* write that completes the start-up leaves a record that names the starting
\* process, with the time of the write
C26_StartupTakesLock ==
    [][\A p \in Procs :
        /\ (mpc[p] = "startup" /\ mpc'[p] \in {"startup_remove", "acquire"})
                => (mpc'[p] = "startup_remove" <=> lock # NoLock)
        /\ (mpc[p] = "startup_remove" /\ mpc'[p] = "acquire")
                => lock' = NoLock
        /\ (mpc[p] = "acquire" /\ mpc'[p] = "load")
                => lock' = [pid |-> p, mtime |-> now]]_vars

\* a starting process has removed the record of another process, which is
\* not older than the TTL and whose owner runs an epoch, and is about to
\* write its own
C26_Witness ==
    \E p, q \in Procs :
        /\ p # q
        /\ mpc[q] = "acquire"
        /\ lock = NoLock
        /\ advances = 0
        /\ EpochRunning(p)
        /\ rpc[p] = "none"
        /\ lock_created_by_this_instance[p]

----------------------------------------------------------------------------
(* The baseline *)

\* C27: within an epoch the baseline is assigned at the first tick that has
\* a price, from the feed or from Dexscreener, with that price as its value;
\* a tick without a price leaves it unset, and once set no tick changes it;
\* apart from ticks it changes only when a new epoch starts or the process
\* ends
C27_BaselineSetOnce ==
    [][\A p \in Procs :
        /\ TickChecks(p) =>
            /\ (g_baseline_price_usd[p] = NoPrice)
                    => g_baseline_price_usd'[p] = usd_price_per_token'[p]
            /\ (g_baseline_price_usd[p] # NoPrice)
                    => g_baseline_price_usd'[p] = g_baseline_price_usd[p]
        /\ (g_baseline_price_usd'[p] # g_baseline_price_usd[p])
            => \/ TickChecks(p)
               \/ TasksCreated(p)
               \/ mpc'[p] \in {"exited", "crashed"}]_vars

\* a tick with a price other than the baseline has left the baseline as it
\* was, and the evaluator runs on
C27_Witness ==
    /\ g_current_tasks[FirstPid]["trader"] = "run"
    /\ g_baseline_price_usd[FirstPid] # NoPrice
    /\ usd_price_per_token[FirstPid] # NoPrice
    /\ usd_price_per_token[FirstPid] # g_baseline_price_usd[FirstPid]

----------------------------------------------------------------------------
(* The order of the epoch's states *)

\* the status of the epoch of p: 0 awaiting the baseline, 1 awaiting the buy
\* signal, 2 holding, 3 closed with an outcome
EpochStatus(p) ==
    IF OutcomeEmitted(p) THEN 3
    ELSE IF g_buy_signal_detected[p] THEN 2
    ELSE IF g_baseline_price_usd[p] # NoPrice THEN 1
    ELSE 0

\* C28: within an epoch, a buy signal once detected stays detected; the buy
\* price is assigned only by the tick that detects the signal, from the
\* price of that tick, and is not changed afterwards; and the status of the
\* epoch never moves backwards
C28_SignalOnceStatusForward ==
    [][\A p \in Procs :
        (~TasksCreated(p) /\ mpc'[p] \notin {"exited", "crashed"}) =>
            /\ g_buy_signal_detected[p] => g_buy_signal_detected'[p]
            /\ (~g_buy_signal_detected[p] /\ g_buy_signal_detected'[p])
                => /\ TickChecks(p)
                   /\ g_buy_price_usd'[p] = usd_price_per_token'[p]
                   /\ g_buy_price_usd'[p] # NoPrice
            /\ (g_buy_price_usd'[p] # g_buy_price_usd[p])
                => ~g_buy_signal_detected[p] /\ g_buy_signal_detected'[p]
            /\ EpochStatus(p)' >= EpochStatus(p)]_vars

\* in Holding, a tick with a price other than the buy price has left the buy
\* signal and the buy price as they were, and the evaluator runs on
C28_Witness ==
    /\ g_current_tasks[FirstPid]["trader"] = "run"
    /\ rpc[FirstPid] = "none"
    /\ g_buy_signal_detected[FirstPid]
    /\ g_buy_price_usd[FirstPid] # NoPrice
    /\ usd_price_per_token[FirstPid] # NoPrice
    /\ usd_price_per_token[FirstPid] # g_buy_price_usd[FirstPid]

----------------------------------------------------------------------------
(* The outcome log *)

\* C29: a step in which the epoch of p closes with an outcome appends
\* exactly one record, carrying the address of the epoch's target, the
\* reason, the buy price of the epoch and the price of the closing tick;
\* records are appended by such steps only; and a process that is restarting
\* the scanner or has left through sys.exit has its record in the log
C29_OneRecordPerOutcome ==
    /\ [](\A p \in Procs :
            OutcomeEmitted(p) =>
                \E i \in 1..Len(trades_csv) :
                    trades_csv[i].mint_address = current_task_mint_address[p])
    /\ [][/\ \A p \in Procs :
                (~OutcomeEmitted(p) /\ OutcomeEmitted(p)') =>
                    /\ Len(trades_csv') = Len(trades_csv) + 1
                    /\ SubSeq(trades_csv', 1, Len(trades_csv)) = trades_csv
                    /\ trades_csv'[Len(trades_csv')].mint_address
                            = current_task_mint_address[p]
                    /\ trades_csv'[Len(trades_csv')].reason # "none"
                    /\ trades_csv'[Len(trades_csv')].buy_price
                            = g_buy_price_usd'[p]
                    /\ trades_csv'[Len(trades_csv')].sell_price
                            = usd_price_per_token'[p]
          /\ trades_csv' # trades_csv =>
                \E p \in Procs : ~OutcomeEmitted(p) /\ OutcomeEmitted(p)'
          /\ scannersStarted' > scannersStarted /\ scannersStarted > 0 =>
                trades_csv # <<>>]_vars

----------------------------------------------------------------------------
(* Overlapping thresholds *)

\* C30: whatever the take-profit and stop-loss thresholds are, a tick that
\* has the buy signal set, at its start or by its own buy-signal check, and
\* a price P with both P >= buyPrice * TP and P <= buyPrice * SL closes the
\* epoch with "Take profit"
C30_TakeProfitWinsTie ==
    [][\A p \in Procs :
        (/\ TickChecks(p)
         /\ g_buy_signal_detected'[p]
         /\ g_buy_price_usd'[p] # NoPrice
         /\ usd_price_per_token'[p] # NoPrice
         /\ 100 * usd_price_per_token'[p] >= take_profit_threshold * g_buy_price_usd'[p]
         /\ 100 * usd_price_per_token'[p] <= stop_loss_threshold * g_buy_price_usd'[p])
        => ClosesWith(p, "Take profit", g_buy_price_usd'[p], usd_price_per_token'[p])]_vars

\* an epoch has closed with "Take profit" at a price that also met the
\* stop-loss condition of its configuration
C30_Witness ==
    /\ trades_csv # <<>>
    /\ trades_csv[Len(trades_csv)].reason = "Take profit"
    /\ 100 * trades_csv[Len(trades_csv)].sell_price
            <= stop_loss_threshold * trades_csv[Len(trades_csv)].buy_price
    /\ 100 * trades_csv[Len(trades_csv)].sell_price
            >= take_profit_threshold * trades_csv[Len(trades_csv)].buy_price
    /\ trades_csv[Len(trades_csv)].buy_price # NoPrice

----------------------------------------------------------------------------
(* The listener *)

\* C31: a frame that fails to parse, by invalid JSON or by amounts that are
\* not numbers, is skipped: the trade buffer is unchanged and the listener
\* goes on receiving on the same connection
C31_MalformedFrameSkipped ==
    [][\A p \in Procs :
        FeedMalformed(p) =>
            /\ g_latest_trade_data' = g_latest_trade_data
            /\ g_current_tasks'[p]["listener"] = "run"]_vars

\* C32: the listener never ends on its own: it is never in a state that
\* hands a result or an exception other than its cancellation to the
\* supervisor, and it stops being alive only by a requested cancellation or
\* with its process; every loss of the connection puts it to sleep for 5 s,
\* it connects again only when that time has passed, and a listener whose
\* sleep is over does connect again, however often that has failed
C32_ListenerRunsUntilCancelled ==
    /\ [](\A p \in Procs :
            g_current_tasks[p]["listener"]
                \in {"none", "run", "sleep", "cancel", "cancelled"})
    /\ [][\A p \in Procs :
            /\ (TaskAlive(p, "listener") /\ ~TaskAlive(p, "listener")')
                => \/ /\ g_current_tasks[p]["listener"] = "cancel"
                      /\ g_current_tasks'[p]["listener"] = "cancelled"
                   \/ mpc'[p] \in {"exited", "crashed"}
            /\ (FeedClosed(p) \/ (FeedReconnect(p) /\ reconnect_at'[p] # reconnect_at[p]))
                => /\ g_current_tasks'[p]["listener"] = "sleep"
                   /\ reconnect_at'[p] = now + RECONNECT_DELAY_SECONDS
            /\ (g_current_tasks[p]["listener"] = "sleep"
                    /\ g_current_tasks'[p]["listener"] = "run")
                => now >= reconnect_at[p]]_vars
    /\ \A p \in Procs :
            (g_current_tasks[p]["listener"] = "sleep" /\ now >= reconnect_at[p])
                ~> \/ g_current_tasks[p]["listener"] # "sleep"
                   \/ reconnect_at[p] > now
                   \/ ~Free(p)

\* a listener that lost its connection and slept is connected again and
\* receives
C32_Witness ==
    /\ g_current_tasks[FirstPid]["listener"] = "run"
    /\ reconnect_at[FirstPid] # NoTime
    /\ now >= reconnect_at[FirstPid]

----------------------------------------------------------------------------
(* The oracle *)

\* C33: a tick asks Dexscreener only if the buffer is empty or its latest
\* sample has a token amount <= 0, and more than 1 s has passed since the
\* tick of the previous request; the answer's tick becomes the previous
\* request
C33_OracleOnlyWithoutFeedPrice ==
    [][\A p \in Procs :
        /\ (EvalTick(p) /\ g_current_tasks'[p]["trader"] = "oracle")
            => /\ \/ g_latest_trade_data[p] = <<>>
                  \/ g_latest_trade_data[p][Len(g_latest_trade_data[p])].amount <= 0
               /\ FeedPrice(g_latest_trade_data[p]) = NoPrice
               /\ now - g_last_dex_price_fetch_time[p]
                    > DEXSCREENER_PRICE_UPDATE_INTERVAL_SECONDS
               /\ current_time'[p] = now
        /\ EvalOracle(p, OraclePrices)
            => g_last_dex_price_fetch_time'[p] = current_time[p]]_vars

\* Dexscreener is being asked again, in a tick whose latest sample has no
\* tokens
C33_Witness ==
    /\ g_current_tasks[FirstPid]["trader"] = "oracle"
    /\ g_last_dex_price_fetch_time[FirstPid] > 0
    /\ g_latest_trade_data[FirstPid] # <<>>

----------------------------------------------------------------------------
(* The trade buffer *)

\* C34: the buffer never holds more than 100 samples; a sample appended to
\* a full buffer evicts the oldest one and the others keep their order; and
\* a tick that takes its price from the feed takes it from the sample
\* appended last
C34_BufferBoundedNewestPrices ==
    /\ [](\A p \in Procs : Len(g_latest_trade_data[p]) <= BUFFER_MAXLEN)
    /\ [][\A p \in Procs :
            /\ FeedStream(p)
                => /\ g_latest_trade_data'[p][Len(g_latest_trade_data'[p])].solAmount
                        = 100000 + framesSeen'[p]
                   /\ IF Len(g_latest_trade_data[p]) = BUFFER_MAXLEN
                      THEN /\ Len(g_latest_trade_data'[p]) = BUFFER_MAXLEN
                           /\ \A i \in 1..(BUFFER_MAXLEN - 1) :
                                g_latest_trade_data'[p][i] = g_latest_trade_data[p][i + 1]
                      ELSE /\ Len(g_latest_trade_data'[p]) = Len(g_latest_trade_data[p]) + 1
                           /\ \A i \in 1..Len(g_latest_trade_data[p]) :
                                g_latest_trade_data'[p][i] = g_latest_trade_data[p][i]
            /\ (EvalTick(p) /\ g_latest_trade_data[p] # <<>>)
                => usd_price_per_token'[p]
                        = (100000 + framesSeen[p]) * g_last_known_sol_price]_vars

\* the buffer is full, its oldest samples have been evicted, and the last
\* tick took the price of the newest sample
C34_Witness ==
    /\ Len(g_latest_trade_data[FirstPid]) = BUFFER_MAXLEN
    /\ g_latest_trade_data[FirstPid][1].solAmount > 100001
    /\ usd_price_per_token[FirstPid]
            = g_latest_trade_data[FirstPid][BUFFER_MAXLEN].solAmount * g_last_known_sol_price

----------------------------------------------------------------------------
(* The selector *)

\* C35: load_token_from_csv returns the address and the name of the last
\* row whose address is not empty and whose impact is present, is a number
\* and is below 65, and (None, None) if there is no such row
C35_SelectsLastQualifyingRow ==
    [][\A p \in Procs :
        Load(p) =>
            LET qualifies(i) == /\ queue[i].addr # NoMint
                                /\ queue[i].impact >= 0
                                /\ queue[i].impact < PRICE_IMPACT_THRESHOLD_MONITOR
                idx == {i \in 1..Len(queue) : qualifies(i)}
                last == CHOOSE i \in idx : \A j \in idx : j <= i
            IN  IF idx = {}
                THEN /\ loaded_mint_address'[p] = NoMint
                     /\ loaded_token_name(queue) = NoMint
                ELSE /\ loaded_mint_address'[p] = queue[last].addr
                     /\ loaded_token_name(queue)
                            = IF queue[last].name # "" THEN queue[last].name
                              ELSE queue[last].addr]_vars

----------------------------------------------------------------------------
(* The watcher *)

\* C36: a poll of the watcher leaves the baseline, the buy signal, the buy
\* price, the stagnation timer and the trade buffer as they are, and the
\* queue, the lock and the outcome log as well; it either changes nothing,
\* or ends the watcher alone because its epoch is stale, or requests the
\* cancellation of the other tasks of its epoch and ends with RestartRequired
C36_WatcherOnlyCancelsAndSignals ==
    [][\A p \in Procs :
        WatcherPoll(p) =>
            /\ UNCHANGED <<g_baseline_price_usd, g_buy_signal_detected, g_buy_price_usd,
                           g_stagnation_timer_start, g_latest_trade_data,
                           g_trade_status, g_token_start_time>>
            /\ UNCHANGED <<queue, lock, trades_csv, mpc, g_current_mint_address>>
            /\ \A q \in Procs \ {p} : g_current_tasks'[q] = g_current_tasks[q]
            /\ \/ g_current_tasks'[p] = g_current_tasks[p]
               \/ /\ g_current_tasks'[p]["checker"] = "returned"
                  /\ \A t \in {"listener", "trader"} :
                        g_current_tasks'[p][t] = g_current_tasks[p][t]
               \/ /\ g_current_tasks'[p]["checker"] = "restart"
                  /\ \A t \in {"listener", "trader"} :
                        g_current_tasks'[p][t] \in {g_current_tasks[p][t], "cancel"}]_vars

\* the watcher has ended with RestartRequired and asked for the cancellation
\* of the evaluator of an epoch that has its baseline
C36_Witness ==
    /\ g_current_tasks[FirstPid]["checker"] = "restart"
    /\ g_current_tasks[FirstPid]["trader"] = "cancel"
    /\ g_baseline_price_usd[FirstPid] # NoPrice

----------------------------------------------------------------------------
(* Stop loss before stagnation *)

\* C37: with the thresholds of lines 131-136, a tick in Holding with a price
\* below baseline * 0.80 closes the epoch with "Stop loss" in that tick, and
\* the stagnation timer is never set while the buy signal is
C37_StopLossBeforeStagnation ==
    /\ [](\A p \in Procs :
            g_buy_signal_detected[p] => g_stagnation_timer_start[p] = NoTime)
    /\ [][\A p \in Procs :
            (/\ TickChecks(p)
             /\ Holding(p)
             /\ g_baseline_price_usd[p] > 0
             /\ 100 * usd_price_per_token'[p]
                    < STAGNATION_PRICE_THRESHOLD_PERCENT * g_baseline_price_usd[p])
            => /\ ClosesWith(p, "Stop loss", g_buy_price_usd[p], usd_price_per_token'[p])
               /\ g_stagnation_timer_start'[p] = NoTime]_vars

\* an epoch that was Holding has closed with "Stop loss" at a price below
\* baseline * 0.80
C37_Witness ==
    /\ trades_csv # <<>>
    /\ trades_csv[Len(trades_csv)].reason = "Stop loss"
    /\ g_baseline_price_usd[FirstPid] > 0
    /\ 100 * trades_csv[Len(trades_csv)].sell_price
            < STAGNATION_PRICE_THRESHOLD_PERCENT * g_baseline_price_usd[FirstPid]

----------------------------------------------------------------------------
(* Provenance of the samples the evaluator reads *)

----------------------------------------------------------------------------
(* One monitor at a time *)

\* C39: at any time at most one monitoring process is running an epoch,
\* whether it was started by the scanner or by the CSV watchdog
C39_OneMonitorInEpoch ==
    \A p \in Procs : \A q \in Procs :
        (EpochRunning(p) /\ EpochRunning(q)) => p = q

----------------------------------------------------------------------------
(* One scanner at a time *)

\* C40: at any time at most one scanner process is running: the scanner
\* that started the monitor is no longer alive once restart_sniperx_v2 has
\* spawned a scanner, and the spawned scanners, which nothing terminates,
\* are never two
C40_OneScanner ==
    (IF spc \in {"init", "dead"} THEN 0 ELSE 1) + scannersStarted <= 1

====
